---- MODULE Spec2Model ----
(***************************************************************************)
(* Smart Melody Tokenizer (smt): vocabulary, tokenizer, quantizer and      *)
(* pattern detector.                                                       *)
(*                                                                         *)
(* Conventions of the model                                                *)
(*  - A Python str is a sequence of one-character strings, so that         *)
(*    formatting (f-strings), str.split, str.upper, str.replace, indexing  *)
(*    and startswith are computed character by character.                  *)
(*  - A Python list is a sequence; list index i is sequence index i + 1.   *)
(*    Token ids and note indices keep their Python (0-based) values.       *)
(*  - A Python dict is a function; its keys are the function's DOMAIN.     *)
(*  - An Optional value is a sequence of length 0 (None) or 1.             *)
(*  - Times and durations are integers in millibeats (1 beat = 1000), the  *)
(*    coarsest unit in which the duration table (0.375 beat), the grid     *)
(*    units and the 0.1 beat tolerance are all whole numbers.              *)
(***************************************************************************)
EXTENDS Integers, Sequences, FiniteSets, TLC

VARIABLES
    config,        \* SMTVocabulary.config
    vocab,         \* SMTVocabulary.vocab
    token_to_id,   \* SMTVocabulary.token_to_id
    id_to_token,   \* SMTVocabulary.id_to_token
    vcall,         \* the last lookup made on the vocabulary: op, arg, res
    midi_config,   \* SmartMelodyTokenizer.midi_config
    notes,         \* the note list handed to the tokenizer
    result,        \* Optional: what encode_notes returned
    decoded,       \* Optional: what decode_tokens returned
    dtokens,       \* the token list handed to _tokens_to_notes
    dpos,          \* _tokens_to_notes: the token the for loop is at (0: no call)
    dstate,        \* _tokens_to_notes: its locals notes, current_time, current_bar
    epos,          \* _notes_to_tokens: the note the for loop is at (0: no call)
    estate,        \* _notes_to_tokens: its locals and the line it is at
    qin,           \* the note list last handed to quantize_notes
    qin_grid,      \* the grid that produced qin (0: qin is raw input)
    qout,          \* what quantize_notes returned for qin
    qgrid,         \* the grid of the last quantize_notes call (0: none yet)
    ucall,         \* the calls made of MIDIProcessor's naming functions: op, arg, res
    det_config,    \* PatternDetector.config
    det_notes,     \* the note list handed to the detector
    candidates,    \* the confidence-filtered patterns handed to _resolve_overlaps
    patterns,      \* Optional: what detect_patterns returned
    pattern_tokens \* Optional: what get_pattern_tokens returned

vocab_vars == <<config, vocab, token_to_id, id_to_token, vcall>>
tok_vars   == <<midi_config, notes, result, decoded>>
dec_vars   == <<dtokens, dpos, dstate>>
enc_vars   == <<epos, estate>>
quant_vars == <<qin, qin_grid, qout, qgrid>>
util_vars  == <<ucall>>
det_vars   == <<det_config, det_notes, candidates, patterns, pattern_tokens>>
vars ==
    <<vocab_vars, tok_vars, dec_vars, enc_vars, quant_vars, util_vars, det_vars>>

----------------------------------------------------------------------------
(* Python built-ins used by the program                                    *)

Range(s) == {s[i] : i \in 1..Len(s)}

Min2(a, b) == IF a <= b THEN a ELSE b

Max2(a, b) == IF a >= b THEN a ELSE b

Abs(x) == IF x < 0 THEN -x ELSE x

\* sum(xs) over a list of integers
RECURSIVE SumSeq(_)
SumSeq(xs) == IF xs = <<>> THEN 0 ELSE Head(xs) + SumSeq(Tail(xs))

\* "".join / list.extend over a list of lists: the concatenation of them all
RECURSIVE Flatten(_)
Flatten(ss) == IF ss = <<>> THEN <<>> ELSE Head(ss) \o Flatten(Tail(ss))

\* s.startswith(prefix)
StartsWith(s, prefix) ==
    /\ Len(s) >= Len(prefix)
    /\ SubSeq(s, 1, Len(prefix)) = prefix

\* s.split(sep) for a one-character separator: always at least one field
RECURSIVE Split(_, _)
Split(s, sep) ==
    IF \A i \in 1..Len(s) : s[i] # sep THEN <<s>>
    ELSE LET k == CHOOSE i \in 1..Len(s) :
                      s[i] = sep /\ \A j \in 1..(i - 1) : s[j] # sep
         IN  <<SubSeq(s, 1, k - 1)>> \o Split(SubSeq(s, k + 1, Len(s)), sep)

\* s.replace(a, b) for one-character a and b
StrReplace(s, a, b) == [i \in 1..Len(s) |-> IF s[i] = a THEN b ELSE s[i]]

LowerCase == <<"a","b","c","d","e","f","g","h","i","j","k","l","m","n","o","p","q","r","s","t","u","v","w","x","y","z">>

UpperCase == <<"A","B","C","D","E","F","G","H","I","J","K","L","M","N","O","P","Q","R","S","T","U","V","W","X","Y","Z">>

\* s.upper(): lower-case letters are raised, every other character is kept
StrUpper(s) ==
    [i \in 1..Len(s) |->
        IF s[i] \in Range(LowerCase)
        THEN UpperCase[CHOOSE k \in 1..26 : LowerCase[k] = s[i]]
        ELSE s[i]]

Digits == <<"0","1","2","3","4","5","6","7","8","9">>

\* str(n) as an f-string renders an int
RECURSIVE NatToStr(_)
NatToStr(n) ==
    IF n < 10 THEN <<Digits[n + 1]>>
    ELSE NatToStr(n \div 10) \o <<Digits[(n % 10) + 1]>>

IntToStr(n) == IF n < 0 THEN <<"-">> \o NatToStr(-n) ELSE NatToStr(n)

\* int(c) for a one-character string: Optional, None where Python raises
\* ValueError
CharToInt(c) ==
    IF c \in Range(Digits)
    THEN <<(CHOOSE k \in 1..10 : Digits[k] = c) - 1>>
    ELSE <<>>

----------------------------------------------------------------------------
(* smt/core/vocabulary.py                                                  *)

DefaultMaxVocabSize == 2000

NoteReserve == 200

DefaultConfig ==
    [pitch_range |-> [min_octave |-> 3, max_octave |-> 6,
                      include_accidentals |-> TRUE],
     durations |-> <<<<"s","i","x","t","e","e","n","t","h">>, <<"e","i","g","h","t","h">>, <<"q","u","a","r","t","e","r">>, <<"h","a","l","f">>,
                     <<"w","h","o","l","e">>, <<"d","o","t","t","e","d","_","q","u","a","r","t","e","r">>, <<"d","o","t","t","e","d","_","h","a","l","f">>>>,
     dynamics |-> <<<<"p","p">>, <<"p">>, <<"m","p">>, <<"m","f">>, <<"f">>, <<"f","f">>>>,
     patterns |-> <<
        [category |-> <<"s","c","a","l","e","s">>,
         labels |-> <<<<"s","c","a","l","e","_","u","p">>, <<"s","c","a","l","e","_","d","o","w","n">>, <<"c","h","r","o","m","a","t","i","c","_","u","p">>,
                      <<"c","h","r","o","m","a","t","i","c","_","d","o","w","n">>>>],
        [category |-> <<"i","n","t","e","r","v","a","l","s">>,
         labels |-> <<<<"s","t","e","p">>, <<"s","k","i","p">>, <<"l","e","a","p">>, <<"o","c","t","a","v","e">>>>],
        [category |-> <<"a","r","p","e","g","g","i","o","s">>,
         labels |-> <<<<"a","r","p","e","g","g","i","o","_","m","a","j","o","r">>, <<"a","r","p","e","g","g","i","o","_","m","i","n","o","r">>,
                      <<"a","r","p","e","g","g","i","o","_","d","i","m">>, <<"a","r","p","e","g","g","i","o","_","a","u","g">>>>],
        [category |-> <<"r","h","y","t","h","m","i","c">>,
         labels |-> <<<<"s","y","n","c","o","p","a","t","e","d">>, <<"s","t","e","a","d","y">>, <<"a","c","c","e","l","e","r","a","n","d","o">>,
                      <<"r","i","t","a","r","d","a","n","d","o">>>>] >>,
     structural |-> <<<<"p","h","r","a","s","e","_","s","t","a","r","t">>, <<"p","h","r","a","s","e","_","e","n","d">>, <<"m","o","t","i","f","_","r","e","p","e","a","t">>,
                      <<"s","e","q","u","e","n","c","e">>>>,
     max_vocab_size |-> DefaultMaxVocabSize]

UNK == <<"[","U","N","K","]">>

BOS == <<"[","B","O","S","]">>

EOS == <<"[","E","O","S","]">>

PAD == <<"[","P","A","D","]">>

BAR == <<"B","A","R">>

SpecialTokens == <<PAD, BOS, EOS, <<"[","M","A","S","K","]">>, UNK, <<"[","S","E","P","]">>>>

StructuralTokens ==
    <<BAR, <<"P","H","R","A","S","E","_","S","T","A","R","T">>, <<"P","H","R","A","S","E","_","E","N","D">>, <<"S","E","C","T","I","O","N","_","A">>, <<"S","E","C","T","I","O","N","_","B">>,
      <<"V","E","R","S","E">>, <<"C","H","O","R","U","S">>, <<"B","R","I","D","G","E">>>>

\* ControlTokens without the two slur tokens
ControlTokens_without_slurs ==
    <<<<"T","E","M","P","O","_","S","L","O","W">>, <<"T","E","M","P","O","_","M","E","D","I","U","M">>, <<"T","E","M","P","O","_","F","A","S","T">>, <<"T","E","M","P","O","_","V","E","R","Y","_","F","A","S","T">>,
      <<"K","E","Y","_","C","_","M","A","J","O","R">>, <<"K","E","Y","_","G","_","M","A","J","O","R">>, <<"K","E","Y","_","D","_","M","A","J","O","R">>, <<"K","E","Y","_","A","_","M","A","J","O","R">>,
      <<"K","E","Y","_","F","_","M","A","J","O","R">>, <<"K","E","Y","_","B","B","_","M","A","J","O","R">>, <<"K","E","Y","_","A","_","M","I","N","O","R">>, <<"K","E","Y","_","E","_","M","I","N","O","R">>,
      <<"T","I","M","E","_","4","_","4">>, <<"T","I","M","E","_","3","_","4">>, <<"T","I","M","E","_","2","_","4">>, <<"T","I","M","E","_","6","_","8">>,
      <<"S","T","Y","L","E","_","L","E","G","A","T","O">>, <<"S","T","Y","L","E","_","S","T","A","C","C","A","T","O">>, <<"S","T","Y","L","E","_","M","A","R","C","A","T","O">>,
      <<"A","C","C","E","N","T">>, <<"T","E","N","U","T","O">>>>

\* the list of _add_control_tokens
ControlTokens ==
    <<<<"T","E","M","P","O","_","S","L","O","W">>, <<"T","E","M","P","O","_","M","E","D","I","U","M">>, <<"T","E","M","P","O","_","F","A","S","T">>, <<"T","E","M","P","O","_","V","E","R","Y","_","F","A","S","T">>,
      <<"K","E","Y","_","C","_","M","A","J","O","R">>, <<"K","E","Y","_","G","_","M","A","J","O","R">>, <<"K","E","Y","_","D","_","M","A","J","O","R">>, <<"K","E","Y","_","A","_","M","A","J","O","R">>,
      <<"K","E","Y","_","F","_","M","A","J","O","R">>, <<"K","E","Y","_","B","B","_","M","A","J","O","R">>, <<"K","E","Y","_","A","_","M","I","N","O","R">>, <<"K","E","Y","_","E","_","M","I","N","O","R">>,
      <<"T","I","M","E","_","4","_","4">>, <<"T","I","M","E","_","3","_","4">>, <<"T","I","M","E","_","2","_","4">>, <<"T","I","M","E","_","6","_","8">>,
      <<"S","T","Y","L","E","_","L","E","G","A","T","O">>, <<"S","T","Y","L","E","_","S","T","A","C","C","A","T","O">>, <<"S","T","Y","L","E","_","M","A","R","C","A","T","O">>,
      <<"A","C","C","E","N","T">>, <<"T","E","N","U","T","O">>, <<"S","L","U","R","_","S","T","A","R","T">>, <<"S","L","U","R","_","E","N","D">>>>

NaturalNoteNames == <<<<"C">>, <<"D">>, <<"E">>, <<"F">>, <<"G">>, <<"A">>, <<"B">>>>

ChromaticNoteNames ==
    <<<<"C">>, <<"C","#">>, <<"D">>, <<"D","#">>, <<"E">>, <<"F">>, <<"F","#">>, <<"G">>, <<"G","#">>,
      <<"A">>, <<"A","#">>, <<"B">>>>

\* _get_pitch_names: octave outer, note name inner
GetPitchNames(cfg) ==
    LET names == IF cfg.pitch_range.include_accidentals
                 THEN ChromaticNoteNames ELSE NaturalNoteNames
        lo == cfg.pitch_range.min_octave
        hi == cfg.pitch_range.max_octave
        n  == Len(names)
    IN  [k \in 1..(Max2(hi - lo + 1, 0) * n) |->
            names[((k - 1) % n) + 1] \o IntToStr(lo + ((k - 1) \div n))]

\* f"NOTE_{pitch_name}_{duration_name}_{dynamic_name}"
FormatNoteToken(pitch_name, duration_name, dynamic_name) ==
    <<"N","O","T","E","_">> \o pitch_name \o <<"_">> \o duration_name \o <<"_">> \o dynamic_name

\* _add_note_tokens: the nested loops visit the combinations pitch-major,
\* then duration, then dynamic; combination number k (from 1) is appended
\* while note_count = k - 1 is below max_vocab_size - 200
AddNoteTokens(cfg) ==
    LET pitches == GetPitchNames(cfg)
        nd    == Len(cfg.durations)
        ny    == Len(cfg.dynamics)
        total == Len(pitches) * nd * ny
        room  == Max2(cfg.max_vocab_size - NoteReserve, 0)
    IN  [k \in 1..Min2(total, room) |->
            FormatNoteToken(pitches[((k - 1) \div (nd * ny)) + 1],
                            cfg.durations[(((k - 1) \div ny) % nd) + 1],
                            cfg.dynamics[((k - 1) % ny) + 1])]

\* _add_rest_tokens
AddRestTokens(cfg) ==
    [k \in 1..Len(cfg.durations) |->
        <<"R","E","S","T","_">> \o StrReplace(cfg.durations[k], ".", "_")]

\* _add_pattern_tokens
AddPatternTokens(cfg) ==
    Flatten([c \in 1..Len(cfg.patterns) |->
                [k \in 1..Len(cfg.patterns[c].labels) |->
                    <<"P","A","T","T","E","R","N","_">> \o StrUpper(cfg.patterns[c].labels[k])]])

\* BuildVocabulary with the rest tokens added before the note tokens
BuildVocabulary_rests_first(cfg) ==
    SpecialTokens \o StructuralTokens \o AddRestTokens(cfg)
        \o AddNoteTokens(cfg) \o AddPatternTokens(cfg) \o ControlTokens

\* _build_vocabulary, up to the mappings: the six families in order
BuildVocabulary(cfg) ==
    SpecialTokens \o StructuralTokens \o AddNoteTokens(cfg)
        \o AddRestTokens(cfg) \o AddPatternTokens(cfg) \o ControlTokens

\* {token: idx for idx, token in enumerate(vocab)} over vocab[lo..hi]: a later
\* index overwrites an earlier one of the same token
RECURSIVE TokenToIdOf(_, _, _)
TokenToIdOf(v, lo, hi) ==
    IF lo = hi THEN (v[lo] :> (lo - 1))
    ELSE LET mid == (lo + hi) \div 2
         IN  TokenToIdOf(v, mid + 1, hi) @@ TokenToIdOf(v, lo, mid)

\* _build_mappings, first line
BuildTokenToId(v) == TokenToIdOf(v, 1, Len(v))

\* _build_mappings, second line: {idx: token for token, idx in
\* token_to_id.items()}.  The items of token_to_id are the pairs
\* (v[i + 1], i) for the indices i that token_to_id kept, so the inverse is
\* read off the list instead of searched for
BuildIdToToken(v, t2i) ==
    [i \in {k \in 0..(Len(v) - 1) : t2i[v[k + 1]] = k} |-> v[i + 1]]

\* an SMTVocabulary as constructed by __init__
NewVocabulary(cfg) ==
    LET v   == BuildVocabulary(cfg)
        t2i == BuildTokenToId(v)
    IN  [config |-> cfg, vocab |-> v, token_to_id |-> t2i,
         id_to_token |-> BuildIdToToken(v, t2i)]

\* SMTVocabulary.size
VocabSize(V) == Len(V.vocab)

\* encode_token with the default of the lookup left at id 0
encode_token_default_zero(V, token) ==
    IF token \in DOMAIN V.token_to_id THEN V.token_to_id[token] ELSE 0

\* SMTVocabulary.encode_token: token_to_id.get(token, token_to_id["[UNK]"])
encode_token(V, token) ==
    IF token \in DOMAIN V.token_to_id THEN V.token_to_id[token]
    ELSE V.token_to_id[UNK]

\* SMTVocabulary.decode_token: id_to_token.get(token_id, "[UNK]")
decode_token(V, token_id) ==
    IF token_id \in DOMAIN V.id_to_token THEN V.id_to_token[token_id]
    ELSE UNK

\* SMTVocabulary.encode_tokens
encode_tokens(V, tokens) ==
    [k \in 1..Len(tokens) |-> encode_token(V, tokens[k])]

\* SMTVocabulary.decode_tokens
decode_tokens(V, token_ids) ==
    [k \in 1..Len(token_ids) |-> decode_token(V, token_ids[k])]

\* the standalone vocabulary object held in the state
TheVocabulary ==
    [config |-> config, vocab |-> vocab, token_to_id |-> token_to_id,
     id_to_token |-> id_to_token]

----------------------------------------------------------------------------
(* smt/utils/midi_utils.py                                                 *)

\* SMTNote
SMTNote(pitch, start_time, end_time, velocity, pitch_name, duration_name, dynamic_name) ==
    [pitch |-> pitch, start_time |-> start_time, end_time |-> end_time,
     velocity |-> velocity, pitch_name |-> pitch_name,
     duration_name |-> duration_name, dynamic_name |-> dynamic_name]

\* the duration table of _beats_to_duration_name, in dict order; the same
\* pairs, read the other way, are the table of _duration_name_to_beats
DurationMap ==
    << [beats |-> 250,  name |-> <<"s","i","x","t","e","e","n","t","h">>],
       [beats |-> 375,  name |-> <<"d","o","t","t","e","d","_","s","i","x","t","e","e","n","t","h">>],
       [beats |-> 500,  name |-> <<"e","i","g","h","t","h">>],
       [beats |-> 750,  name |-> <<"d","o","t","t","e","d","_","e","i","g","h","t","h">>],
       [beats |-> 1000, name |-> <<"q","u","a","r","t","e","r">>],
       [beats |-> 1500, name |-> <<"d","o","t","t","e","d","_","q","u","a","r","t","e","r">>],
       [beats |-> 2000, name |-> <<"h","a","l","f">>],
       [beats |-> 3000, name |-> <<"d","o","t","t","e","d","_","h","a","l","f">>],
       [beats |-> 4000, name |-> <<"w","h","o","l","e">>] >>

\* the "small tolerance" of 0.1 beat, used by _beats_to_duration_name and by
\* the rest test of _notes_to_tokens
Tolerance == 100

\* _beats_to_duration_name: min(keys, key=distance) takes the first key at
\* least distance; within 0.1 beat its name, otherwise "quarter"
beats_to_duration_name(duration_beats) ==
    LET dist(k) == Abs(DurationMap[k].beats - duration_beats)
        closest == CHOOSE k \in 1..Len(DurationMap) :
                      /\ \A j \in 1..Len(DurationMap) : dist(k) <= dist(j)
                      /\ \A j \in 1..(k - 1) : dist(j) > dist(k)
    IN  IF dist(closest) < Tolerance THEN DurationMap[closest].name
        ELSE <<"q","u","a","r","t","e","r">>

\* _midi_to_pitch_name
midi_to_pitch_name(midi_pitch) ==
    ChromaticNoteNames[(midi_pitch % 12) + 1]
        \o IntToStr((midi_pitch \div 12) - 1)

\* note_map of _pitch_name_to_midi: the index of the name, from 0
NoteMap(note) ==
    IF note \in Range(ChromaticNoteNames)
    THEN <<(CHOOSE k \in 1..12 : ChromaticNoteNames[k] = note) - 1>>
    ELSE <<>>

\* _pitch_name_to_midi: Optional, None where Python raises (IndexError on an
\* empty name, ValueError from int(), KeyError from note_map)
pitch_name_to_midi(pitch_name) ==
    IF pitch_name = <<>> THEN <<>>
    ELSE LET n == Len(pitch_name)
             note == IF "#" \in Range(pitch_name) THEN SubSeq(pitch_name, 1, n - 1)
                     ELSE IF "s" \in Range(pitch_name)
                          THEN SubSeq(pitch_name, 1, n - 2) \o <<"#">>
                          ELSE SubSeq(pitch_name, 1, n - 1)
             octave == CharToInt(pitch_name[n])
         IN  IF octave = <<>> \/ NoteMap(note) = <<>> THEN <<>>
             ELSE <<(octave[1] + 1) * 12 + NoteMap(note)[1]>>

\* _velocity_to_dynamic
velocity_to_dynamic(velocity) ==
    IF velocity < 20 THEN <<"p","p">>
    ELSE IF velocity < 40 THEN <<"p">>
    ELSE IF velocity < 60 THEN <<"m","p">>
    ELSE IF velocity < 80 THEN <<"m","f">>
    ELSE IF velocity < 100 THEN <<"f">>
    ELSE <<"f","f">>

\* _dynamic_to_velocity: dynamic_map.get(dynamic, 65)
dynamic_to_velocity(dynamic) ==
    IF dynamic = <<"p","p">> THEN 25
    ELSE IF dynamic = <<"p">> THEN 35
    ELSE IF dynamic = <<"m","p">> THEN 50
    ELSE IF dynamic = <<"m","f">> THEN 65
    ELSE IF dynamic = <<"f">> THEN 85
    ELSE IF dynamic = <<"f","f">> THEN 100
    ELSE 65

\* Python's round(x / unit) for unit > 0: to the nearest integer, a tie to
\* the even one
PyRound(x, unit) ==
    LET q == x \div unit
        r == x % unit
    IN  IF 2 * r < unit THEN q
        ELSE IF 2 * r > unit THEN q + 1
        ELSE IF q % 2 = 0 THEN q ELSE q + 1

\* beat_subdivision = 1.0 / (grid / 4): one grid unit, in millibeats
BeatSubdivision(grid) == 4000 \div grid

\* QuantizeNote with one grid unit added to every duration instead of
\* taking the maximum with it
QuantizeNote_padded(note, grid) ==
    LET beat_subdivision == BeatSubdivision(grid)
        quantized_start ==
            PyRound(note.start_time, beat_subdivision) * beat_subdivision
        quantized_duration ==
            PyRound(note.end_time - note.start_time, beat_subdivision)
                * beat_subdivision + beat_subdivision
    IN  SMTNote(note.pitch, quantized_start,
                quantized_start + quantized_duration, note.velocity,
                note.pitch_name, beats_to_duration_name(quantized_duration),
                note.dynamic_name)

\* QuantizeNote without the minimum of one grid unit on the duration
QuantizeNote_unclamped(note, grid) ==
    LET beat_subdivision == BeatSubdivision(grid)
        quantized_start ==
            PyRound(note.start_time, beat_subdivision) * beat_subdivision
        quantized_duration ==
            PyRound(note.end_time - note.start_time, beat_subdivision)
                * beat_subdivision
    IN  SMTNote(note.pitch, quantized_start,
                quantized_start + quantized_duration, note.velocity,
                note.pitch_name, beats_to_duration_name(quantized_duration),
                note.dynamic_name)

\* the body of quantize_notes' loop, for one note
QuantizeNote(note, grid) ==
    LET beat_subdivision == BeatSubdivision(grid)
        quantized_start ==
            PyRound(note.start_time, beat_subdivision) * beat_subdivision
        original_duration == note.end_time - note.start_time
        quantized_duration ==
            Max2(PyRound(original_duration, beat_subdivision) * beat_subdivision,
                 beat_subdivision)
    IN  SMTNote(note.pitch, quantized_start,
                quantized_start + quantized_duration, note.velocity,
                note.pitch_name, beats_to_duration_name(quantized_duration),
                note.dynamic_name)

\* quantize_notes
quantize_notes(ns, grid) == [k \in 1..Len(ns) |-> QuantizeNote(ns[k], grid)]

\* load_midi_file, lines 69-77: the SMTNote built for one MIDI note, its names
\* computed by the library's naming functions
LoadedNote(pitch, start_beats, end_beats, velocity) ==
    SMTNote(pitch, start_beats, end_beats, velocity,
            midi_to_pitch_name(pitch),
            beats_to_duration_name(end_beats - start_beats),
            velocity_to_dynamic(velocity))

----------------------------------------------------------------------------
(* smt/core/tokenizer.py                                                   *)

DefaultQuantizationGrid == 16

DefaultBeatsPerBar == 4000

\* the default midi_config of SmartMelodyTokenizer.__init__
DefaultMidiConfig ==
    [quantization_grid |-> DefaultQuantizationGrid,
     min_rest_duration |-> 250,
     max_bars |-> 32,
     beats_per_bar |-> DefaultBeatsPerBar]

\* SmartMelodyTokenizer().vocabulary: vocab_config is None, so the vocabulary
\* is built from the default configuration
TokenizerVocabulary == NewVocabulary(DefaultConfig)

\* _duration_name_to_beats: duration_map.get(duration_name, 1.0)
duration_name_to_beats(duration_name) ==
    IF \E k \in 1..Len(DurationMap) : DurationMap[k].name = duration_name
    THEN DurationMap[CHOOSE k \in 1..Len(DurationMap) :
                        DurationMap[k].name = duration_name].beats
    ELSE 1000

\* sep.join(parts) for a non-empty list of parts
RECURSIVE StrJoin(_, _)
StrJoin(parts, sep) ==
    IF Len(parts) = 1 THEN parts[1]
    ELSE parts[1] \o sep \o StrJoin(Tail(parts), sep)

\* _parse_duration_from_token
parse_duration_from_token(token) ==
    LET parts == Split(token, "_")
    IN  IF Len(parts) >= 2
        THEN duration_name_to_beats(StrJoin(Tail(parts), <<"_">>))
        ELSE 250

\* _create_note_token
create_note_token(note) ==
    FormatNoteToken(note.pitch_name, note.duration_name, note.dynamic_name)

\* create_rest_token naming the nearest entry of the table however far it is
create_rest_token_nearest(duration_beats) ==
    <<"R","E","S","T","_">> \o DurationMap[CHOOSE k \in 1..Len(DurationMap) :
                    \A j \in 1..Len(DurationMap) :
                       Abs(DurationMap[k].beats - duration_beats)
                          <= Abs(DurationMap[j].beats - duration_beats)].name

\* _create_rest_token
create_rest_token(duration_beats) ==
    <<"R","E","S","T","_">> \o beats_to_duration_name(duration_beats)

\* _parse_note_token: Optional, None for a token that is not four fields or
\* whose conversion raises
parse_note_token(token, start_time) ==
    LET parts == Split(token, "_")
    IN  IF Len(parts) # 4 \/ parts[1] # <<"N","O","T","E">> THEN <<>>
        ELSE LET pitch == pitch_name_to_midi(parts[2])
             IN  IF pitch = <<>> THEN <<>>
                 ELSE <<SMTNote(pitch[1], start_time,
                                start_time + duration_name_to_beats(parts[3]),
                                dynamic_to_velocity(parts[4]),
                                parts[2], parts[3], parts[4])>>

\* BarMarkers with an `if` in place of the `while`: at most one BAR a note
BarMarkers_once(start_time, current_bar_start, beats_per_bar) ==
    IF start_time >= current_bar_start + beats_per_bar THEN 1 ELSE 0

\* the while loop of _notes_to_tokens (lines 143-145) for one note: how many
\* BAR tokens it appends, for beats_per_bar > 0
RECURSIVE BarMarkers(_, _, _)
BarMarkers(start_time, current_bar_start, beats_per_bar) ==
    IF start_time >= current_bar_start + beats_per_bar
    THEN 1 + BarMarkers(start_time, current_bar_start + beats_per_bar,
                        beats_per_bar)
    ELSE 0

\* RestBefore without the tolerance and with >= for >
RestBefore_eager(note, current_time) ==
    IF note.start_time >= current_time
    THEN <<create_rest_token(note.start_time - current_time)>>
    ELSE <<>>

\* lines 147-151 of _notes_to_tokens: the rest tokens put before a note
RestBefore(note, current_time) ==
    IF note.start_time > current_time + Tolerance
    THEN <<create_rest_token(note.start_time - current_time)>>
    ELSE <<>>

\* the for loop of _notes_to_tokens from note i on; st holds the loop's
\* tokens, current_time and current_bar_start
RECURSIVE NotesToTokensLoop(_, _, _, _)
NotesToTokensLoop(ns, i, st, beats_per_bar) ==
    IF i > Len(ns) THEN st.tokens
    ELSE LET note == ns[i]
             bars == BarMarkers(note.start_time, st.current_bar_start,
                                beats_per_bar)
         IN  NotesToTokensLoop(ns, i + 1,
                [tokens |-> st.tokens \o [k \in 1..bars |-> BAR]
                               \o RestBefore(note, st.current_time)
                               \o <<create_note_token(note)>>,
                 current_time |-> note.end_time,
                 current_bar_start |->
                     st.current_bar_start + bars * beats_per_bar],
                beats_per_bar)

\* _notes_to_tokens
notes_to_tokens(ns, mcfg) ==
    NotesToTokensLoop(ns, 1,
        [tokens |-> <<BOS>>, current_time |-> 0, current_bar_start |-> 0],
        mcfg.beats_per_bar) \o <<EOS>>

\* TokensToNotesStep with a note token that does not parse taking a
\* quarter note's time
TokensToNotesStep_silent_beat(st, token, beats_per_bar) ==
    IF token \in {BOS, EOS, PAD} THEN st
    ELSE IF token = BAR
    THEN [st EXCEPT !.current_bar = @ + 1,
                    !.current_time = (st.current_bar + 1) * beats_per_bar]
    ELSE IF StartsWith(token, <<"R","E","S","T","_">>)
    THEN [st EXCEPT !.current_time = @ + parse_duration_from_token(token)]
    ELSE IF StartsWith(token, <<"N","O","T","E","_">>)
    THEN LET note == parse_note_token(token, st.current_time)
         IN  IF note # <<>>
             THEN [st EXCEPT !.notes = Append(@, note[1]),
                             !.current_time = note[1].end_time]
             ELSE [st EXCEPT !.current_time = @ + 1000]
    ELSE st

\* TokensToNotesStep with BAR moving current_time one bar on from where it
\* is
TokensToNotesStep_relative_bar(st, token, beats_per_bar) ==
    IF token \in {BOS, EOS, PAD} THEN st
    ELSE IF token = BAR
    THEN [st EXCEPT !.current_bar = @ + 1,
                    !.current_time = @ + beats_per_bar]
    ELSE IF StartsWith(token, <<"R","E","S","T","_">>)
    THEN [st EXCEPT !.current_time = @ + parse_duration_from_token(token)]
    ELSE IF StartsWith(token, <<"N","O","T","E","_">>)
    THEN LET note == parse_note_token(token, st.current_time)
         IN  IF note # <<>>
             THEN [st EXCEPT !.notes = Append(@, note[1]),
                             !.current_time = note[1].end_time]
             ELSE st
    ELSE st

\* one turn of the for loop of _tokens_to_notes: the loop state after `token`
TokensToNotesStep(st, token, beats_per_bar) ==
    IF token \in {BOS, EOS, PAD} THEN st
    ELSE IF token = BAR
    THEN [st EXCEPT !.current_bar = @ + 1,
                    !.current_time = (st.current_bar + 1) * beats_per_bar]
    ELSE IF StartsWith(token, <<"R","E","S","T","_">>)
    THEN [st EXCEPT !.current_time = @ + parse_duration_from_token(token)]
    ELSE IF StartsWith(token, <<"N","O","T","E","_">>)
    THEN LET note == parse_note_token(token, st.current_time)
         IN  IF note # <<>>
             THEN [st EXCEPT !.notes = Append(@, note[1]),
                             !.current_time = note[1].end_time]
             ELSE st
    ELSE st

\* the for loop of _tokens_to_notes from token i on
RECURSIVE TokensToNotesLoop(_, _, _, _)
TokensToNotesLoop(tokens, i, st, beats_per_bar) ==
    IF i > Len(tokens) THEN st
    ELSE TokensToNotesLoop(tokens, i + 1,
             TokensToNotesStep(st, tokens[i], beats_per_bar), beats_per_bar)

\* _tokens_to_notes
tokens_to_notes(tokens, mcfg) ==
    TokensToNotesLoop(tokens, 1,
        [notes |-> <<>>, current_time |-> 0, current_bar |-> 0],
        mcfg.beats_per_bar).notes

\* min / max of note.pitch over a non-empty list
MinPitch(ns) == CHOOSE p \in {ns[k].pitch : k \in 1..Len(ns)} :
                    \A k \in 1..Len(ns) : p <= ns[k].pitch

MaxPitch(ns) == CHOOSE p \in {ns[k].pitch : k \in 1..Len(ns)} :
                    \A k \in 1..Len(ns) : p >= ns[k].pitch

\* encode_notes without the early return for an empty list
encode_notes_no_short_circuit(ns, mcfg) ==
    LET quantized_notes == quantize_notes(ns, mcfg.quantization_grid)
        tokens == notes_to_tokens(quantized_notes, mcfg)
    IN  [tokens |-> tokens,
         token_ids |-> encode_tokens(TokenizerVocabulary, tokens),
         metadata |-> [num_notes |-> Len(ns),
                       duration |-> IF ns = <<>> THEN 0
                                    ELSE ns[Len(ns)].end_time,
                       num_tokens |-> Len(tokens)],
         notes |-> quantized_notes,
         quantized |-> TRUE]

\* encode_notes, called without source_info; compression_ratio is kept as
\* the fraction notes / tokens, and `quantized` records whether line 78 ran
encode_notes(ns, mcfg) ==
    IF ns = <<>>
    THEN [tokens |-> <<BOS, EOS>>,
          token_ids |-> <<encode_token(TokenizerVocabulary, BOS),
                          encode_token(TokenizerVocabulary, EOS)>>,
          metadata |-> [num_notes |-> 0, duration |-> 0],
          notes |-> <<>>,
          quantized |-> FALSE]
    ELSE LET quantized_notes == quantize_notes(ns, mcfg.quantization_grid)
             tokens == notes_to_tokens(quantized_notes, mcfg)
         IN  [tokens |-> tokens,
              token_ids |-> encode_tokens(TokenizerVocabulary, tokens),
              metadata |-> [num_notes |-> Len(ns),
                            duration |-> ns[Len(ns)].end_time,
                            num_tokens |-> Len(tokens),
                            source |-> <<>>,
                            compression_ratio |->
                                [num |-> Len(ns), den |-> Len(tokens)],
                            pitch_range |->
                                [min |-> MinPitch(ns), max |-> MaxPitch(ns)]],
              notes |-> quantized_notes,
              quantized |-> TRUE]

\* decode_tokens for a list of token strings
decode_token_strings(tokens, mcfg) == tokens_to_notes(tokens, mcfg)

\* decode_tokens for a list of ids: mapped through the vocabulary first
decode_token_ids(token_ids, mcfg) ==
    tokens_to_notes(decode_tokens(TokenizerVocabulary, token_ids), mcfg)

----------------------------------------------------------------------------
(* smt/patterns/detector.py                                                *)
(* A confidence is the exact fraction num / den (den > 0) of the float the *)
(* code computes; fractions are compared by cross-multiplication.  The     *)
(* detector reads only the pitches of its notes, so a note list is given   *)
(* as its list of pitches.  A MusicalPattern keeps pattern_type,           *)
(* start_index, end_index and confidence; description and notes are       *)
(* determined by those and the input.                                      *)

Frac(n, d) == [num |-> n, den |-> d]

FracGeq(a, b) == a.num * b.den >= b.num * a.den

\* the default configuration of PatternDetector
DefaultDetectorConfig ==
    [min_pattern_length |-> 3, max_pattern_length |-> 8,
     scale_tolerance |-> 1, arpeggio_tolerance |-> 2,
     sequence_min_repetitions |-> 2,
     confidence_threshold |-> Frac(7, 10)]

MusicalPattern(pattern_type, start_index, end_index, confidence) ==
    [pattern_type |-> pattern_type, start_index |-> start_index,
     end_index |-> end_index, confidence |-> confidence]

\* [pitches[i+1] - pitches[i] for i in range(len(pitches) - 1)]
Intervals(pitches) ==
    [i \in 1..(Len(pitches) - 1) |-> pitches[i + 1] - pitches[i]]

\* sum(1 for interval in intervals if lo <= abs(interval) <= hi)
CountWithin(intervals, lo, hi) ==
    Cardinality({i \in 1..Len(intervals) :
                    lo <= Abs(intervals[i]) /\ Abs(intervals[i]) <= hi})

\* "up" if np.mean(intervals) > 0 else "down"
Direction(intervals) == IF SumSeq(intervals) > 0 THEN <<"u","p">> ELSE <<"d","o","w","n">>

\* ScaleLengthBonus with a bonus of 0.3
ScaleLengthBonus_three_tenths(n) == IF n >= 5 THEN 3 ELSE 0

\* the bonus of _analyze_scale_pattern, in tenths: 0.2 if len(segment) >= 5
ScaleLengthBonus(n) == IF n >= 5 THEN 2 ELSE 0

\* _analyze_scale_pattern: Optional
analyze_scale_pattern(segment, start_idx) ==
    IF Len(segment) < 3 THEN <<>>
    ELSE LET intervals == Intervals(segment)
             n == Len(intervals)
             stepwise_count == CountWithin(intervals, 0, 2)
         IN  IF 10 * stepwise_count >= 8 * n
             THEN <<MusicalPattern(
                      <<"s","c","a","l","e","_">> \o Direction(intervals),
                      start_idx, start_idx + Len(segment) - 1,
                      Frac(8 * stepwise_count
                             + ScaleLengthBonus(Len(segment)) * n, 10 * n))>>
             ELSE <<>>

\* _classify_chord_type
classify_chord_type(pitches) ==
    IF Len(pitches) < 3 THEN <<"u","n","k","n","o","w","n">>
    ELSE LET normalized == {(pitches[i] - pitches[1]) % 12 :
                               i \in 1..Len(pitches)}
         IN  IF {0, 4, 7} \subseteq normalized THEN <<"m","a","j","o","r">>
             ELSE IF {0, 3, 7} \subseteq normalized THEN <<"m","i","n","o","r">>
             ELSE IF {0, 3, 6} \subseteq normalized THEN <<"d","i","m","i","n","i","s","h","e","d">>
             ELSE IF {0, 4, 8} \subseteq normalized THEN <<"a","u","g","m","e","n","t","e","d">>
             ELSE <<"u","n","k","n","o","w","n">>

\* the bonus of _analyze_arpeggio_pattern, in tenths: 0.3 if len(segment) >= 4
ArpeggioLengthBonus(n) == IF n >= 4 THEN 3 ELSE 0

\* _analyze_arpeggio_pattern: Optional
analyze_arpeggio_pattern(segment, start_idx) ==
    IF Len(segment) < 3 THEN <<>>
    ELSE LET intervals == Intervals(segment)
             n == Len(intervals)
             chord_intervals == CountWithin(intervals, 3, 5)
         IN  IF 10 * chord_intervals >= 6 * n
             THEN <<MusicalPattern(
                      <<"a","r","p","e","g","g","i","o","_">> \o classify_chord_type(segment),
                      start_idx, start_idx + Len(segment) - 1,
                      Frac(7 * chord_intervals
                             + ArpeggioLengthBonus(Len(segment)) * n, 10 * n))>>
             ELSE <<>>

\* _detect_scales: start outer, length inner (the break at
\* start + length > len(notes) ends the inner loop), keeping an analysed
\* pattern whose confidence is >= 0.6
detect_scales(pitches, cfg) ==
    LET min_length == cfg.min_pattern_length
        max_length == Min2(cfg.max_pattern_length, Len(pitches))
    IN  Flatten([s \in 1..Max2(Len(pitches) - min_length + 1, 0) |->
            Flatten([l \in 1..Max2(max_length - min_length + 1, 0) |->
                LET length == min_length + l - 1
                    start == s - 1
                IN  IF start + length > Len(pitches) THEN <<>>
                    ELSE LET pattern == analyze_scale_pattern(
                                 SubSeq(pitches, start + 1, start + length),
                                 start)
                         IN  IF pattern # <<>>
                                /\ FracGeq(pattern[1].confidence, Frac(6, 10))
                             THEN pattern ELSE <<>>])])

\* _detect_arpeggios: the same two loops, from a length of at least 3
detect_arpeggios(pitches, cfg) ==
    LET min_length == Max2(3, cfg.min_pattern_length)
        max_length == Min2(cfg.max_pattern_length, Len(pitches))
    IN  Flatten([s \in 1..Max2(Len(pitches) - min_length + 1, 0) |->
            Flatten([l \in 1..Max2(max_length - min_length + 1, 0) |->
                LET length == min_length + l - 1
                    start == s - 1
                IN  IF start + length > Len(pitches) THEN <<>>
                    ELSE LET pattern == analyze_arpeggio_pattern(
                                 SubSeq(pitches, start + 1, start + length),
                                 start)
                         IN  IF pattern # <<>>
                                /\ FracGeq(pattern[1].confidence, Frac(6, 10))
                             THEN pattern ELSE <<>>])])

\* the while loop of _find_sequence_pattern: the repetitions counted from
\* current_pos on
RECURSIVE CountRepetitions(_, _, _, _, _)
CountRepetitions(pitches, intervals1, current_pos, pattern_size, repetitions) ==
    IF current_pos + pattern_size <= Len(pitches)
       /\ Intervals(SubSeq(pitches, current_pos + 1, current_pos + pattern_size))
            = intervals1
    THEN CountRepetitions(pitches, intervals1, current_pos + pattern_size,
                          pattern_size, repetitions + 1)
    ELSE repetitions

\* min(0.9, 0.5 + (repetitions - 2) * 0.15)
SequenceConfidence(repetitions) ==
    Frac(Min2(90, 50 + (repetitions - 2) * 15), 100)

\* _find_sequence_pattern: Optional
find_sequence_pattern(pitches, start, pattern_size, cfg) ==
    IF start + pattern_size * 2 > Len(pitches) THEN <<>>
    ELSE LET intervals1 ==
                 Intervals(SubSeq(pitches, start + 1, start + pattern_size))
             repetitions ==
                 CountRepetitions(pitches, intervals1, start + pattern_size,
                                  pattern_size, 1)
         IN  IF repetitions >= cfg.sequence_min_repetitions
             THEN <<MusicalPattern(<<"s","e","q","u","e","n","c","e">>, start,
                       start + (repetitions * pattern_size) - 1,
                       SequenceConfidence(repetitions))>>
             ELSE <<>>

\* _detect_sequences: pattern sizes 2..4, start in range(len - 2 * size)
detect_sequences(pitches, cfg) ==
    Flatten([z \in 1..3 |->
        LET pattern_size == z + 1
        IN  Flatten([s \in 1..Max2(Len(pitches) - pattern_size * 2, 0) |->
                find_sequence_pattern(pitches, s - 1, pattern_size, cfg)])])

\* _detect_intervals
detect_intervals(pitches) ==
    IF Len(pitches) < 3 THEN <<>>
    ELSE Flatten([k \in 1..(Len(pitches) - 2) |->
            LET interval1 == Abs(pitches[k + 1] - pitches[k])
                interval2 == Abs(pitches[k + 2] - pitches[k + 1])
            IN  IF interval1 > 4 /\ interval2 <= 2
                THEN <<MusicalPattern(
                         <<"l","e","a","p","_">> \o (IF pitches[k + 1] > pitches[k]
                                       THEN <<"u","p">> ELSE <<"d","o","w","n">>),
                         k - 1, k + 1, Frac(7, 10))>>
                ELSE <<>>])

\* SortByConfidence that leaves the list in the order it came in
SortByConfidence_unsorted(ps) == ps

\* list.sort(key=confidence, reverse=True): stable, highest first
RECURSIVE SortByConfidence(_)
SortByConfidence(ps) ==
    IF ps = <<>> THEN <<>>
    ELSE LET rest == SortByConfidence(SubSeq(ps, 1, Len(ps) - 1))
             x == ps[Len(ps)]
             \* x goes behind every pattern of at least its confidence
             k == Cardinality({i \in 1..Len(rest) :
                                  FracGeq(rest[i].confidence, x.confidence)})
         IN  SubSeq(rest, 1, k) \o <<x>> \o SubSeq(rest, k + 1, Len(rest))

\* set(range(pattern.start_index, pattern.end_index + 1))
PatternIndices(p) == p.start_index .. p.end_index

\* ResolveLoop that never records the indices it has used, and so keeps
\* every pattern from i on
ResolveLoop_forgetful(sorted, i, resolved, used_indices) ==
    resolved \o SubSeq(sorted, i, Len(sorted))

\* the for loop of _resolve_overlaps from sorted pattern i on
RECURSIVE ResolveLoop(_, _, _, _)
ResolveLoop(sorted, i, resolved, used_indices) ==
    IF i > Len(sorted) THEN resolved
    ELSE IF PatternIndices(sorted[i]) \cap used_indices = {}
    THEN ResolveLoop(sorted, i + 1, Append(resolved, sorted[i]),
                     used_indices \cup PatternIndices(sorted[i]))
    ELSE ResolveLoop(sorted, i + 1, resolved, used_indices)

\* _resolve_overlaps
resolve_overlaps(ps) ==
    IF ps = <<>> THEN ps
    ELSE ResolveLoop(SortByConfidence(ps), 1, <<>>, {})

\* detect_patterns, lines 60-66: the four detectors in order
AllCandidates(pitches, cfg) ==
    detect_scales(pitches, cfg) \o detect_arpeggios(pitches, cfg)
        \o detect_sequences(pitches, cfg) \o detect_intervals(pitches)

\* FilterByConfidence keeping the patterns of at most the threshold
RECURSIVE FilterByConfidence_at_most(_, _)
FilterByConfidence_at_most(ps, cfg) ==
    IF ps = <<>> THEN <<>>
    ELSE IF FracGeq(cfg.confidence_threshold, Head(ps).confidence)
    THEN <<Head(ps)>> \o FilterByConfidence_at_most(Tail(ps), cfg)
    ELSE FilterByConfidence_at_most(Tail(ps), cfg)

\* detect_patterns, line 69: [p for p in patterns if p.confidence >= threshold]
RECURSIVE FilterByConfidence(_, _)
FilterByConfidence(ps, cfg) ==
    IF ps = <<>> THEN <<>>
    ELSE IF FracGeq(Head(ps).confidence, cfg.confidence_threshold)
    THEN <<Head(ps)>> \o FilterByConfidence(Tail(ps), cfg)
    ELSE FilterByConfidence(Tail(ps), cfg)

\* detect_patterns
detect_patterns(pitches, cfg) ==
    IF Len(pitches) < cfg.min_pattern_length THEN <<>>
    ELSE resolve_overlaps(FilterByConfidence(AllCandidates(pitches, cfg), cfg))

\* get_pattern_tokens
get_pattern_tokens(ps) ==
    [k \in 1..Len(ps) |-> <<"P","A","T","T","E","R","N","_">> \o StrUpper(ps[k].pattern_type)]
----------------------------------------------------------------------------
(* The objects of a run and the calls made on them                         *)

\* a configuration given to SMTVocabulary(config)
VocabConfig(lo, hi, accidentals, durations, dynamics, pats, max_size) ==
    [pitch_range |-> [min_octave |-> lo, max_octave |-> hi,
                      include_accidentals |-> accidentals],
     durations |-> durations, dynamics |-> dynamics, patterns |-> pats,
     structural |-> DefaultConfig.structural,
     max_vocab_size |-> max_size]

\* the configurations a standalone vocabulary is constructed from: the
\* default one, and small ones with and without repeated entries, with an
\* empty pitch range, with a max_vocab_size that truncates the notes, and
\* with one below the reserve
VocabConfigs ==
    {DefaultConfig} \cup
    {VocabConfig(4, hi, FALSE, durs, dyns, pats, max_size) :
        hi \in {3, 4},
        durs \in {<<<<"q","u","a","r","t","e","r">>>>,
                  <<<<"q","u","a","r","t","e","r">>, <<"d","o","t","t","e","d","_","q","u","a","r","t","e","r">>>>,
                  <<<<"q","u","a","r","t","e","r">>, <<"h","a","l","f">>, <<"q","u","a","r","t","e","r">>>>,
                  <<<<"a",".","b">>, <<"a","_","b">>>>},
        dyns \in {<<<<"m","f">>>>, <<<<"f">>, <<"f">>>>},
        pats \in {<<[category |-> <<"s","c","a","l","e","s">>,
                     labels |-> <<<<"s","c","a","l","e","_","u","p">>, <<"l","e","a","p">>>>]>>,
                  <<[category |-> <<"s","c","a","l","e","s">>, labels |-> <<<<"l","e","a","p">>>>],
                    [category |-> <<"i","n","t","e","r","v","a","l","s">>, labels |-> <<<<"l","e","a","p">>>>]>>},
        max_size \in {DefaultMaxVocabSize, NoteReserve + 5,
                     NoteReserve \div 10}}

\* the vocabulary built when only the tokenizer, the quantizer or the
\* detector is exercised
IdleVocabConfig ==
    VocabConfig(4, 4, FALSE, <<<<"q","u","a","r","t","e","r">>>>, <<<<"m","f">>>>, <<>>,
                DefaultMaxVocabSize)

NoCall == [op |-> "none", arg |-> <<>>, res |-> <<>>]

\* vocabulary = SMTVocabulary(cfg)
VocabConstructed(cfg) ==
    LET V == NewVocabulary(cfg)
    IN  /\ config = V.config
        /\ vocab = V.vocab
        /\ token_to_id = V.token_to_id
        /\ id_to_token = V.id_to_token
        /\ vcall = NoCall

\* tokenizer = SmartMelodyTokenizer(midi_config=mcfg), and no call made yet
TokenizerConstructed(mcfg) ==
    /\ midi_config = mcfg
    /\ notes = <<>>
    /\ result = <<>>
    /\ decoded = <<>>
    /\ dtokens = <<>>
    /\ dpos = 0
    /\ dstate = <<>>
    /\ epos = 0
    /\ estate = <<>>

\* processor = MIDIProcessor(), and no call made yet
ProcessorConstructed ==
    /\ qin = <<>>
    /\ qin_grid = 0
    /\ qout = <<>>
    /\ qgrid = 0
    /\ ucall = <<>>

\* detector = PatternDetector(cfg), and no call made yet
DetectorConstructed(cfg) ==
    /\ det_config = cfg
    /\ det_notes = <<>>
    /\ candidates = <<>>
    /\ patterns = <<>>
    /\ pattern_tokens = <<>>

----------------------------------------------------------------------------
(* VocabSpec: a vocabulary is constructed from any configuration, then     *)
(* tokens and ids are looked up on it                                      *)

\* tokens looked up: every family of the vocabulary, and strings that are
\* in no vocabulary
ProbeTokens ==
    {UNK, BAR, <<"N","O","T","E","_","C","4","_","q","u","a","r","t","e","r","_","m","f">>, <<"N","O","T","E","_","C","4","_","d","o","t","t","e","d","_","q","u","a","r","t","e","r","_","m","f">>,
     <<"R","E","S","T","_","a","_","b">>, <<"P","A","T","T","E","R","N","_","L","E","A","P">>, <<"S","L","U","R","_","E","N","D">>,
     <<"N","O","T","_","A","_","R","E","A","L","_","T","O","K","E","N">>, <<"n","o","t","e","_","c","4","_","q","u","a","r","t","e","r","_","m","f">>, <<>>}

\* how far from the two ends of 0..size-1 ids are looked up
IdMargin == 2

\* ids looked up on a vocabulary of the given size: around 0 and around size
ProbeIds(size) ==
    ((0 - IdMargin)..IdMargin) \cup ((size - 1 - IdMargin)..(size - 1 + IdMargin))

VocabInit ==
    /\ \E cfg \in VocabConfigs : VocabConstructed(cfg)
    /\ TokenizerConstructed(DefaultMidiConfig)
    /\ ProcessorConstructed
    /\ DetectorConstructed(DefaultDetectorConfig)

\* vocabulary.encode_token(token)
EncodeToken ==
    \E token \in ProbeTokens :
        /\ vcall' = [op |-> "encode_token", arg |-> token,
                     res |-> encode_token(TheVocabulary, token)]
        /\ UNCHANGED <<config, vocab, token_to_id, id_to_token>>
        /\ UNCHANGED <<tok_vars, dec_vars, enc_vars, quant_vars, util_vars, det_vars>>

\* vocabulary.decode_token(token_id)
DecodeToken ==
    \E token_id \in ProbeIds(Len(vocab)) :
        /\ vcall' = [op |-> "decode_token", arg |-> token_id,
                     res |-> decode_token(TheVocabulary, token_id)]
        /\ UNCHANGED <<config, vocab, token_to_id, id_to_token>>
        /\ UNCHANGED <<tok_vars, dec_vars, enc_vars, quant_vars, util_vars, det_vars>>

VocabNext == EncodeToken \/ DecodeToken

VocabSpec == VocabInit /\ [][VocabNext]_vars

----------------------------------------------------------------------------
(* Spec: a tokenizer is constructed with the default vocabulary, a note    *)
(* list is put together as load_midi_file does, encoded once and the       *)
(* result decoded, from its token strings or from its token ids            *)

MaxNotes == 3

\* the notes of an input list, as <<pitch, length>>: B6 as a quarter, F#4
\* as a dotted quarter, a whole note and a dotted eighth; both pitches lie in
\* the default octave range 3..6
NoteShapes == {<<95, 1000>>, <<66, 1500>>, <<66, 4000>>, <<66, 750>>}

\* a note follows the one before it at once, after one beat or after five
NoteGaps == {0, 1000, 5000}

NoteVelocities == {65}

\* the midi_config a tokenizer is constructed with: the default, four
\* beats a bar, and the same with three beats a bar
MidiConfigs ==
    {DefaultMidiConfig, [DefaultMidiConfig EXCEPT !.beats_per_bar = 3000]}

Init ==
    /\ VocabConstructed(IdleVocabConfig)
    /\ \E mcfg \in MidiConfigs : TokenizerConstructed(mcfg)
    /\ ProcessorConstructed
    /\ DetectorConstructed(DefaultDetectorConfig)

\* the caller appends one more note to the list it will encode; the list
\* stays sorted by start time
AddNote ==
    /\ result = <<>>
    /\ Len(notes) < MaxNotes
    /\ \E shape \in NoteShapes, gap \in NoteGaps, velocity \in NoteVelocities :
          LET start == (IF notes = <<>> THEN 0
                        ELSE notes[Len(notes)].end_time) + gap
          IN  notes' = Append(notes,
                  LoadedNote(shape[1], start, start + shape[2], velocity))
    /\ UNCHANGED <<midi_config, result, decoded>>
    /\ UNCHANGED <<vocab_vars, dec_vars, enc_vars, quant_vars, util_vars, det_vars>>

\* result = tokenizer.encode_notes(notes)
EncodeNotes ==
    /\ result = <<>>
    /\ result' = <<encode_notes(notes, midi_config)>>
    /\ UNCHANGED <<midi_config, notes, decoded>>
    /\ UNCHANGED <<vocab_vars, dec_vars, enc_vars, quant_vars, util_vars, det_vars>>

\* decoded = tokenizer.decode_tokens(result["tokens"])
DecodeTokenStrings ==
    /\ result # <<>>
    /\ decoded = <<>>
    /\ decoded' = <<[from |-> "tokens",
                     notes |-> decode_token_strings(result[1].tokens,
                                                    midi_config)]>>
    /\ UNCHANGED <<midi_config, notes, result>>
    /\ UNCHANGED <<vocab_vars, dec_vars, enc_vars, quant_vars, util_vars, det_vars>>

\* decoded = tokenizer.decode_tokens(result["token_ids"])
DecodeTokenIds ==
    /\ result # <<>>
    /\ decoded = <<>>
    /\ decoded' = <<[from |-> "token_ids",
                     notes |-> decode_token_ids(result[1].token_ids,
                                                midi_config)]>>
    /\ UNCHANGED <<midi_config, notes, result>>
    /\ UNCHANGED <<vocab_vars, dec_vars, enc_vars, quant_vars, util_vars, det_vars>>

Next == AddNote \/ EncodeNotes \/ DecodeTokenStrings \/ DecodeTokenIds

Spec == Init /\ [][Next]_vars

----------------------------------------------------------------------------
(* QuantSpec: raw notes are handed to quantize_notes, and its output is    *)
(* handed to it again                                                      *)

MaxRawNotes == 2

\* start times and lengths on and off the grids, ties between two grid
\* points and lengths of zero and below included
RawStarts == {0, 100, 125, 375, 1050}

RawLengths == {-500, 0, 100, 125, 375, 1000, 1130}

\* the grids: eighth, sixteenth and thirty-second notes
Grids == {8, 16, 32}

QuantInit ==
    /\ VocabConstructed(IdleVocabConfig)
    /\ TokenizerConstructed(DefaultMidiConfig)
    /\ ProcessorConstructed
    /\ DetectorConstructed(DefaultDetectorConfig)

\* the caller appends one more raw note to the list it will quantize
AddRawNote ==
    /\ qgrid = 0
    /\ Len(qin) < MaxRawNotes
    /\ \E start \in RawStarts, length \in RawLengths :
          qin' = Append(qin, LoadedNote(60, start, start + length, 65))
    /\ UNCHANGED <<qin_grid, qout, qgrid>>
    /\ UNCHANGED <<vocab_vars, tok_vars, dec_vars, enc_vars, util_vars, det_vars>>

\* quantized = processor.quantize_notes(raw, grid)
QuantizeNotes ==
    /\ qgrid = 0
    /\ \E grid \in Grids :
          /\ qout' = quantize_notes(qin, grid)
          /\ qgrid' = grid
    /\ UNCHANGED <<qin, qin_grid>>
    /\ UNCHANGED <<vocab_vars, tok_vars, dec_vars, enc_vars, util_vars, det_vars>>

\* quantized = processor.quantize_notes(quantized, grid)
RequantizeNotes ==
    /\ qgrid # 0
    /\ \E grid \in Grids :
          /\ qin' = qout
          /\ qin_grid' = qgrid
          /\ qout' = quantize_notes(qout, grid)
          /\ qgrid' = grid
    /\ UNCHANGED <<vocab_vars, tok_vars, dec_vars, enc_vars, util_vars, det_vars>>

QuantNext == AddRawNote \/ QuantizeNotes \/ RequantizeNotes

QuantSpec == QuantInit /\ [][QuantNext]_vars

----------------------------------------------------------------------------
(* PatternSpec: a detector is constructed; either a melody is put together *)
(* and detect_patterns is called on it, or a list of patterns is put       *)
(* together and _resolve_overlaps is called on it; the patterns of a       *)
(* melody are turned into tokens by get_pattern_tokens                     *)

MaxDetNotes == 5

MaxCandidates == 3

\* the last note index a hand-made pattern may cover
MaxCandidateIndex == 2

\* C4, D4, E4, G4: steps, thirds, fourths and leaps between them
DetPitches == {60, 62, 64, 67}

DetectorConfigs ==
    {DefaultDetectorConfig,
     [DefaultDetectorConfig EXCEPT !.min_pattern_length = 2,
                                   !.max_pattern_length = 4,
                                   !.sequence_min_repetitions = 1,
                                   !.confidence_threshold = Frac(1, 2)],
     [DefaultDetectorConfig EXCEPT !.sequence_min_repetitions = 0,
                                   !.confidence_threshold = Frac(0, 1)],
     [DefaultDetectorConfig EXCEPT !.max_pattern_length = 3,
                                   !.confidence_threshold = Frac(9, 10)]}

\* the patterns a caller hands to _resolve_overlaps
HandMadePatterns ==
    {MusicalPattern(<<"s","c","a","l","e","_","u","p">>, span[1], span[2], c) :
        span \in {x \in (0..MaxCandidateIndex) \X (0..MaxCandidateIndex) :
                     x[1] <= x[2]},
        c \in {Frac(7, 10), Frac(8, 10)}}

PatternInit ==
    /\ VocabConstructed(IdleVocabConfig)
    /\ TokenizerConstructed(DefaultMidiConfig)
    /\ ProcessorConstructed
    /\ \E cfg \in DetectorConfigs : DetectorConstructed(cfg)

\* the caller appends one more note to the melody
AddDetNote ==
    /\ patterns = <<>>
    /\ candidates = <<>>
    /\ Len(det_notes) < MaxDetNotes
    /\ \E pitch \in DetPitches : det_notes' = Append(det_notes, pitch)
    /\ UNCHANGED <<det_config, candidates, patterns, pattern_tokens>>
    /\ UNCHANGED <<vocab_vars, tok_vars, dec_vars, enc_vars, quant_vars, util_vars>>

\* patterns = detector.detect_patterns(notes); candidates is the list that
\* line 72 hands to _resolve_overlaps (empty on the early return)
DetectPatterns ==
    /\ patterns = <<>>
    /\ det_notes # <<>>
    /\ candidates' =
          IF Len(det_notes) < det_config.min_pattern_length THEN <<>>
          ELSE FilterByConfidence(AllCandidates(det_notes, det_config),
                                  det_config)
    /\ patterns' = <<detect_patterns(det_notes, det_config)>>
    /\ UNCHANGED <<det_config, det_notes, pattern_tokens>>
    /\ UNCHANGED <<vocab_vars, tok_vars, dec_vars, enc_vars, quant_vars, util_vars>>

\* the caller appends one more pattern to the list it will resolve;
\* _resolve_overlaps reads no option, so the default detector stands for all
AddCandidate ==
    /\ patterns = <<>>
    /\ det_notes = <<>>
    /\ det_config = DefaultDetectorConfig
    /\ Len(candidates) < MaxCandidates
    /\ \E p \in HandMadePatterns : candidates' = Append(candidates, p)
    /\ UNCHANGED <<det_config, det_notes, patterns, pattern_tokens>>
    /\ UNCHANGED <<vocab_vars, tok_vars, dec_vars, enc_vars, quant_vars, util_vars>>

\* patterns = detector._resolve_overlaps(candidates)
ResolveOverlaps ==
    /\ patterns = <<>>
    /\ det_notes = <<>>
    /\ patterns' = <<resolve_overlaps(candidates)>>
    /\ UNCHANGED <<det_config, det_notes, candidates, pattern_tokens>>
    /\ UNCHANGED <<vocab_vars, tok_vars, dec_vars, enc_vars, quant_vars, util_vars>>

\* pattern_tokens = detector.get_pattern_tokens(patterns), for the patterns
\* detect_patterns returned
GetPatternTokens ==
    /\ patterns # <<>>
    /\ det_notes # <<>>
    /\ pattern_tokens = <<>>
    /\ pattern_tokens' = <<get_pattern_tokens(patterns[1])>>
    /\ UNCHANGED <<det_config, det_notes, candidates, patterns>>
    /\ UNCHANGED <<vocab_vars, tok_vars, dec_vars, enc_vars, quant_vars, util_vars>>

PatternNext ==
    \/ AddDetNote \/ DetectPatterns \/ AddCandidate \/ ResolveOverlaps
    \/ GetPatternTokens

PatternSpec == PatternInit /\ [][PatternNext]_vars


----------------------------------------------------------------------------
(* DecodeSpec: a caller puts a token list together and hands it to         *)
(* decode_tokens; the for loop of _tokens_to_notes is followed token by    *)
(* token, its locals held in dstate                                        *)

MaxTokens == 3

\* the tokens a caller may hand in: a skipped special token, a bar marker,
\* a rest, notes the encoder emits (one with five fields among them), notes
\* with a pitch or a dynamic that no table holds, a note of two fields, a
\* pattern token
DecodeProbeTokens ==
    {BOS, BAR, <<"R","E","S","T","_","h","a","l","f">>, <<"N","O","T","E","_","C","4","_","q","u","a","r","t","e","r","_","m","f">>, <<"N","O","T","E","_","F","s","4","_","e","i","g","h","t","h","_","f">>,
     <<"N","O","T","E","_","C","4","_","d","o","t","t","e","d","_","q","u","a","r","t","e","r","_","m","f">>, <<"N","O","T","E","_","X","9","9","_","q","u","a","r","t","e","r","_","m","f">>,
     <<"N","O","T","E","_","C","-","1","_","q","u","a","r","t","e","r","_","m","f">>, <<"N","O","T","E","_","I","N","V","A","L","I","D">>, <<"N","O","T","E","_","C","4","_","q","u","a","r","t","e","r","_","x","x">>,
     <<"P","A","T","T","E","R","N","_","S","C","A","L","E","_","U","P">>}

DecodeInit ==
    /\ VocabConstructed(IdleVocabConfig)
    /\ \E mcfg \in MidiConfigs : TokenizerConstructed(mcfg)
    /\ ProcessorConstructed
    /\ DetectorConstructed(DefaultDetectorConfig)

\* the caller appends one more token to the list it will decode
AddToken ==
    /\ dpos = 0
    /\ Len(dtokens) < MaxTokens
    /\ \E token \in DecodeProbeTokens : dtokens' = Append(dtokens, token)
    /\ UNCHANGED <<dpos, dstate>>
    /\ UNCHANGED <<vocab_vars, tok_vars, enc_vars, quant_vars, util_vars, det_vars>>

\* tokenizer.decode_tokens(dtokens) is called: _tokens_to_notes sets its
\* locals (lines 165-167) and reaches the for loop
StartDecode ==
    /\ dpos = 0
    /\ dpos' = 1
    /\ dstate' = <<[notes |-> <<>>, current_time |-> 0, current_bar |-> 0]>>
    /\ UNCHANGED dtokens
    /\ UNCHANGED <<vocab_vars, tok_vars, enc_vars, quant_vars, util_vars, det_vars>>

\* one turn of the for loop (lines 169-192)
DecodeStep ==
    /\ dpos \in 1..Len(dtokens)
    /\ dstate' = <<TokensToNotesStep(dstate[1], dtokens[dpos],
                                     midi_config.beats_per_bar)>>
    /\ dpos' = dpos + 1
    /\ UNCHANGED dtokens
    /\ UNCHANGED <<vocab_vars, tok_vars, enc_vars, quant_vars, util_vars, det_vars>>

\* the loop is over: `return notes` (line 194), and decode_tokens hands the
\* list on (line 133)
DecodeReturn ==
    /\ dpos = Len(dtokens) + 1
    /\ decoded' = <<[from |-> "tokens", notes |-> dstate[1].notes]>>
    /\ dpos' = dpos + 1
    /\ UNCHANGED <<dtokens, dstate>>
    /\ UNCHANGED <<midi_config, notes, result>>
    /\ UNCHANGED <<vocab_vars, enc_vars, quant_vars, util_vars, det_vars>>

DecodeNext == AddToken \/ StartDecode \/ DecodeStep \/ DecodeReturn

DecodeSpec == DecodeInit /\ [][DecodeNext]_vars

----------------------------------------------------------------------------
(* UtilSpec: a caller turns a MIDI pitch into its name with                *)
(* _midi_to_pitch_name and the name back into a pitch with                 *)
(* _pitch_name_to_midi, as test_pitch_conversion_roundtrip does, or a      *)
(* dynamic marking into a velocity with _dynamic_to_velocity and the       *)
(* velocity back into a marking with _velocity_to_dynamic                  *)

\* the largest pitch an SMTNote carries
MaxMidiPitch == 127

UtilInit ==
    /\ VocabConstructed(IdleVocabConfig)
    /\ TokenizerConstructed(DefaultMidiConfig)
    /\ ProcessorConstructed
    /\ DetectorConstructed(DefaultDetectorConfig)

\* name = processor._midi_to_pitch_name(pitch)
MidiToPitchName ==
    /\ \E pitch \in 0..MaxMidiPitch :
          ucall' = <<[op |-> "midi_to_pitch_name", arg |-> pitch,
                      res |-> midi_to_pitch_name(pitch)]>>
    /\ UNCHANGED <<vocab_vars, tok_vars, dec_vars, enc_vars, quant_vars, det_vars>>

\* processor._pitch_name_to_midi(name), for the name just obtained; res is
\* empty where the call raises
PitchNameToMidi ==
    /\ Len(ucall) = 1
    /\ ucall[1].op = "midi_to_pitch_name"
    /\ ucall' = Append(ucall,
                    [op |-> "pitch_name_to_midi", arg |-> ucall[1].res,
                     res |-> pitch_name_to_midi(ucall[1].res)])
    /\ UNCHANGED <<vocab_vars, tok_vars, dec_vars, enc_vars, quant_vars, det_vars>>

\* the dynamic markings test_dynamic_to_velocity_conversion goes through
DynamicNames == {<<"p","p">>, <<"p">>, <<"m","p">>, <<"m","f">>, <<"f">>, <<"f","f">>}

\* velocity = processor._dynamic_to_velocity(dynamic)
DynamicToVelocity ==
    /\ \E dynamic \in DynamicNames :
          ucall' = <<[op |-> "dynamic_to_velocity", arg |-> dynamic,
                      res |-> dynamic_to_velocity(dynamic)]>>
    /\ UNCHANGED <<vocab_vars, tok_vars, dec_vars, enc_vars, quant_vars, det_vars>>

\* processor._velocity_to_dynamic(velocity), for the velocity just obtained
VelocityToDynamic ==
    /\ Len(ucall) = 1
    /\ ucall[1].op = "dynamic_to_velocity"
    /\ ucall' = Append(ucall,
                    [op |-> "velocity_to_dynamic", arg |-> ucall[1].res,
                     res |-> velocity_to_dynamic(ucall[1].res)])
    /\ UNCHANGED <<vocab_vars, tok_vars, dec_vars, enc_vars, quant_vars, det_vars>>

UtilNext ==
    \/ MidiToPitchName
    \/ PitchNameToMidi
    \/ DynamicToVelocity
    \/ VelocityToDynamic

UtilSpec == UtilInit /\ [][UtilNext]_vars

----------------------------------------------------------------------------
(* EncodeSpec: a tokenizer is constructed with any beats_per_bar, a note   *)
(* list is put together and handed to encode_notes; the for loop and the   *)
(* while loop of _notes_to_tokens are followed line by line, their locals  *)
(* held in estate.  The scheduler runs the call on: a line that can be     *)
(* executed is executed                                                    *)

MaxEncodeNotes == 2

\* the BAR tokens the model follows; past them the while loop still turns,
\* and the model no longer records the growth of tokens and the drift of
\* current_bar_start
MaxBarTokens == 8

\* beats_per_bar as the constructor takes it, no range enforced: four and
\* three beats, none, and minus four
AnyMidiConfigs ==
    {[DefaultMidiConfig EXCEPT !.beats_per_bar = b] :
        b \in {DefaultBeatsPerBar, 3000, 0, -DefaultBeatsPerBar}}

EncodeInit ==
    /\ VocabConstructed(IdleVocabConfig)
    /\ \E mcfg \in AnyMidiConfigs : TokenizerConstructed(mcfg)
    /\ ProcessorConstructed
    /\ DetectorConstructed(DefaultDetectorConfig)

\* the caller appends one more note to the list it will encode; the list
\* stays sorted by start time
AppendNote ==
    /\ epos = 0
    /\ result = <<>>
    /\ Len(notes) < MaxEncodeNotes
    /\ \E shape \in NoteShapes, gap \in NoteGaps, velocity \in NoteVelocities :
          LET start == (IF notes = <<>> THEN 0
                        ELSE notes[Len(notes)].end_time) + gap
          IN  notes' = Append(notes,
                  LoadedNote(shape[1], start, start + shape[2], velocity))
    /\ UNCHANGED <<midi_config, result, decoded>>
    /\ UNCHANGED <<vocab_vars, dec_vars, enc_vars, quant_vars, util_vars, det_vars>>

\* lines 87-107 of encode_notes: the dictionary returned for the tokens
EncodeResult(ns, quantized_notes, tokens) ==
    [tokens |-> tokens,
     token_ids |-> encode_tokens(TokenizerVocabulary, tokens),
     metadata |-> [num_notes |-> Len(ns),
                   duration |-> ns[Len(ns)].end_time,
                   num_tokens |-> Len(tokens),
                   source |-> <<>>,
                   compression_ratio |-> [num |-> Len(ns), den |-> Len(tokens)],
                   pitch_range |-> [min |-> MinPitch(ns), max |-> MaxPitch(ns)]],
     notes |-> quantized_notes,
     quantized |-> TRUE]

\* tokenizer.encode_notes(notes) with an empty list returns at once (lines
\* 68-76)
EncodeEmpty ==
    /\ epos = 0
    /\ result = <<>>
    /\ notes = <<>>
    /\ result' = <<encode_notes(notes, midi_config)>>
    /\ UNCHANGED <<midi_config, notes, decoded>>
    /\ UNCHANGED <<vocab_vars, dec_vars, enc_vars, quant_vars, util_vars, det_vars>>

\* tokenizer.encode_notes(notes) is called: the notes are quantized (lines
\* 78-81), _notes_to_tokens sets its locals (lines 137-139) and reaches
\* the while loop for the first note
StartEncode ==
    /\ epos = 0
    /\ notes # <<>>
    /\ epos' = 1
    /\ estate' = <<[notes |-> quantize_notes(notes,
                                  midi_config.quantization_grid),
                    tokens |-> <<BOS>>,
                    current_time |-> 0,
                    current_bar_start |-> 0,
                    line |-> "while"]>>
    /\ UNCHANGED <<vocab_vars, tok_vars, dec_vars, quant_vars, util_vars, det_vars>>

\* the condition of the while loop (line 143) for the note at epos
BarCondition ==
    estate[1].notes[epos].start_time
        >= estate[1].current_bar_start + midi_config.beats_per_bar

\* how many BAR tokens the list holds
BarTokens(tokens) == Len(SelectSeq(tokens, LAMBDA token : token = BAR))

\* line 143, the condition true: the loop body is entered
EnterBarLoop ==
    /\ epos \in 1..Len(notes)
    /\ estate[1].line = "while"
    /\ BarCondition
    /\ estate' = <<[estate[1] EXCEPT !.line = "bar"]>>
    /\ UNCHANGED epos
    /\ UNCHANGED <<vocab_vars, tok_vars, dec_vars, quant_vars, util_vars, det_vars>>

\* lines 144-145: a BAR is appended, current_bar_start moves on by
\* beats_per_bar, and the condition is looked at again
AppendBar ==
    /\ epos \in 1..Len(notes)
    /\ estate[1].line = "bar"
    /\ estate' =
          IF BarTokens(estate[1].tokens) < MaxBarTokens
          THEN <<[estate[1] EXCEPT
                    !.tokens = Append(@, BAR),
                    !.current_bar_start = @ + midi_config.beats_per_bar,
                    !.line = "while"]>>
          ELSE <<[estate[1] EXCEPT !.line = "while"]>>
    /\ UNCHANGED epos
    /\ UNCHANGED <<vocab_vars, tok_vars, dec_vars, quant_vars, util_vars, det_vars>>

\* line 143, the condition false, and lines 147-158: the rest and the note
\* token are appended, current_time moves to the note's end, and the for
\* loop goes to the next note
AppendNoteToken ==
    /\ epos \in 1..Len(notes)
    /\ estate[1].line = "while"
    /\ ~BarCondition
    /\ LET note == estate[1].notes[epos]
       IN  estate' = <<[estate[1] EXCEPT
                          !.tokens = @ \o RestBefore(note,
                                                     estate[1].current_time)
                                       \o <<create_note_token(note)>>,
                          !.current_time = note.end_time]>>
    /\ epos' = epos + 1
    /\ UNCHANGED <<vocab_vars, tok_vars, dec_vars, quant_vars, util_vars, det_vars>>

\* the for loop is over: [EOS] is appended (line 160), and encode_notes
\* builds its result from the tokens (lines 87-107)
EncodeReturn ==
    /\ epos = Len(notes) + 1
    /\ result = <<>>
    /\ result' = <<EncodeResult(notes, estate[1].notes,
                                Append(estate[1].tokens, EOS))>>
    /\ estate' = <<[estate[1] EXCEPT !.tokens = Append(@, EOS),
                                     !.line = "return"]>>
    /\ UNCHANGED epos
    /\ UNCHANGED <<midi_config, notes, decoded>>
    /\ UNCHANGED <<vocab_vars, dec_vars, quant_vars, util_vars, det_vars>>

EncodeNext ==
    \/ AppendNote
    \/ EncodeEmpty
    \/ StartEncode
    \/ EnterBarLoop
    \/ AppendBar
    \/ AppendNoteToken
    \/ EncodeReturn

\* a call that has begun runs on: Python executes the next line whenever
\* there is one
EncodeSpec == EncodeInit /\ [][EncodeNext]_vars /\ WF_vars(EncodeNext)
----------------------------------------------------------------------------
(* Properties of the vocabulary, stated for VocabSpec                      *)

\* C2: after construction from any configuration, one with repeated
\* duration, dynamic or pattern entries included, token <-> id is a
\* bijection between the tokens of vocab and the ids 0..size-1: decoding the
\* id of a token of vocab gives the token back, encoding the token of an id
\* in 0..size-1 gives the id back, and so the id of [UNK] is the only id in
\* range that decodes to [UNK].
C2_TokenIdBijection ==
    /\ \A k \in 1..Len(vocab) :
          decode_token(TheVocabulary, encode_token(TheVocabulary, vocab[k]))
              = vocab[k]
    /\ \A i \in 0..(VocabSize(TheVocabulary) - 1) :
          /\ encode_token(TheVocabulary, decode_token(TheVocabulary, i)) = i
          /\ decode_token(TheVocabulary, i) = UNK
                => i = encode_token(TheVocabulary, UNK)

\* the last call looked up a string that is not in the vocabulary
UnknownTokenLookedUp ==
    vcall.op = "encode_token" /\ vcall.arg \notin Range(vocab)

\* the last call looked up an integer outside 0..size-1
OutOfRangeIdLookedUp ==
    /\ vcall.op = "decode_token"
    /\ vcall.arg \notin 0..(VocabSize(TheVocabulary) - 1)

\* C3: vocabulary lookups never fail.  encode_token of a string that is not
\* in the vocabulary returns exactly the id of [UNK], which is what
\* encode_token([UNK]) returns; decode_token of an integer outside
\* 0..size-1, negative or >= size, returns [UNK]; and no lookup changes
\* config, vocab, token_to_id or id_to_token.
C3_LookupsNeverFail ==
    /\ [](/\ UnknownTokenLookedUp
             => /\ vcall.res = token_to_id[UNK]
                /\ vcall.res = encode_token(TheVocabulary, UNK)
                /\ vocab[vcall.res + 1] = UNK
          /\ OutOfRangeIdLookedUp => vcall.res = UNK)
    /\ [][<<config, vocab, token_to_id, id_to_token>>'
             = <<config, vocab, token_to_id, id_to_token>>]_vars

\* an unknown string was looked up on the default vocabulary and came back
\* as the id of [UNK], which is not id 0
C3_Witness ==
    /\ UnknownTokenLookedUp
    /\ config = DefaultConfig
    /\ vcall.arg = <<"N","O","T","_","A","_","R","E","A","L","_","T","O","K","E","N">>
    /\ vcall.res = token_to_id[UNK]
    /\ vcall.res # 0

----------------------------------------------------------------------------
(* Properties of the tokenizer, stated for Spec                            *)

IsNoteToken(token) == StartsWith(token, <<"N","O","T","E","_">>)

IsRestToken(token) == StartsWith(token, <<"R","E","S","T","_">>)

\* the position in tokens of the i-th NOTE_ token; 1, the position of
\* [BOS], for i = 0
NoteTokenPosition(tokens, i) ==
    IF i = 0 THEN 1
    ELSE LET positions == {k \in 1..Len(tokens) : IsNoteToken(tokens[k])}
         IN  CHOOSE k \in positions :
                 Cardinality({j \in positions : j <= k}) = i

\* the positions strictly between the NOTE_ token of note i - 1 and that of
\* note i: where the BAR and REST_ tokens of note i lie
PositionsBeforeNote(tokens, i) ==
    (NoteTokenPosition(tokens, i - 1) + 1)..(NoteTokenPosition(tokens, i) - 1)

\* sorted by start time with no timing gaps, grid-aligned, names consistent
\* with the numbers, and every duration name in the default duration set
CleanInput(ns) ==
    \A i \in 1..Len(ns) :
        /\ ns[i].start_time = (IF i = 1 THEN 0 ELSE ns[i - 1].end_time)
        /\ ns[i].start_time % BeatSubdivision(DefaultQuantizationGrid) = 0
        /\ ns[i].end_time % BeatSubdivision(DefaultQuantizationGrid) = 0
        /\ ns[i] = LoadedNote(ns[i].pitch, ns[i].start_time, ns[i].end_time,
                              ns[i].velocity)
        /\ ns[i].duration_name \in Range(DefaultConfig.durations)

\* C1: round trip on clean input.  For a note list that is sorted, has no
\* timing gaps, is grid-aligned, has consistent names and takes every
\* duration from the default duration set (dotted_quarter and dotted_half
\* included), decode_tokens(encode_notes(notes).tokens) has as many notes as
\* the input, and its i-th note has the pitch, pitch_name, duration_name and
\* dynamic_name of notes[i].
C1_RoundTripOnCleanInput ==
    (/\ decoded # <<>>
     /\ decoded[1].from = "tokens"
     /\ CleanInput(notes))
    => /\ Len(decoded[1].notes) = Len(notes)
       /\ \A i \in 1..Len(notes) :
             /\ decoded[1].notes[i].pitch = notes[i].pitch
             /\ decoded[1].notes[i].pitch_name = notes[i].pitch_name
             /\ decoded[1].notes[i].duration_name = notes[i].duration_name
             /\ decoded[1].notes[i].dynamic_name = notes[i].dynamic_name

\* the pitches of the octave range of the default configuration, C3..B6
InConfiguredOctaves(ns) ==
    \A i \in 1..Len(ns) :
        /\ (DefaultConfig.pitch_range.min_octave + 1) * 12 <= ns[i].pitch
        /\ ns[i].pitch < (DefaultConfig.pitch_range.max_octave + 2) * 12

\* C4: every token encode_notes emits is in the tokenizer's vocabulary.  For
\* a note list whose pitches lie in the octaves 3..6 and whose names were
\* computed by the library's naming functions, every NOTE_ and REST_ token
\* of result.tokens is in vocabulary.vocab, and result.token_ids holds the
\* id of [UNK] nowhere.
C4_EmittedTokensInVocabulary ==
    (/\ result # <<>>
     /\ InConfiguredOctaves(notes)
     /\ \A i \in 1..Len(notes) :
           notes[i] = LoadedNote(notes[i].pitch, notes[i].start_time,
                                 notes[i].end_time, notes[i].velocity))
    => /\ \A k \in 1..Len(result[1].tokens) :
             result[1].tokens[k] \in DOMAIN TokenizerVocabulary.token_to_id
       /\ \A k \in 1..Len(result[1].token_ids) :
             result[1].token_ids[k] # encode_token(TokenizerVocabulary, UNK)

\* C8: empty input is a valid degenerate case.  encode_notes([]) returns
\* tokens exactly [BOS, EOS], token_ids exactly [id(BOS), id(EOS)], metadata
\* with num_notes 0 and duration 0.0 and nothing else, and an empty notes
\* list, without running quantization or the main loop; and decode_tokens of
\* the two-token sequence, given as strings or as ids, returns no note.
C8_EmptyInput ==
    /\ (result # <<>> /\ notes = <<>>)
       => /\ result[1].tokens = <<BOS, EOS>>
          /\ result[1].token_ids = <<TokenizerVocabulary.token_to_id[BOS],
                                     TokenizerVocabulary.token_to_id[EOS]>>
          /\ result[1].token_ids[1] # result[1].token_ids[2]
          /\ result[1].metadata = [num_notes |-> 0, duration |-> 0]
          /\ result[1].notes = <<>>
          /\ ~result[1].quantized
    /\ (decoded # <<>> /\ result[1].tokens = <<BOS, EOS>>)
       => decoded[1].notes = <<>>

\* the empty list was encoded and the resulting ids were decoded
C8_Witness ==
    /\ notes = <<>>
    /\ result # <<>>
    /\ result[1].tokens = <<BOS, EOS>>
    /\ decoded # <<>>
    /\ decoded[1].from = "token_ids"
    /\ decoded[1].notes = <<>>

\* C9: bar markers on encode.  For the notes handed to _notes_to_tokens
\* (sorted, start_time >= 0) and beats_per_bar B > 0, the number of BAR
\* tokens before the NOTE_ token of note i is floor(start_time_i / B), and
\* the BAR tokens of a note precede its REST_ and NOTE_ tokens; so notes at
\* 0, 4 and 8 with B = 4 give exactly two BARs, one before each of the
\* second and third notes, and a gap over several bars gives that many
\* consecutive BARs.
C9_BarMarkers ==
    result # <<>> =>
        LET tokens == result[1].tokens
            ns == result[1].notes
            B == midi_config.beats_per_bar
        IN  /\ Cardinality({k \in 1..Len(tokens) : IsNoteToken(tokens[k])})
                  = Len(ns)
            /\ \A i \in 1..Len(ns) :
                  /\ Cardinality({k \in 1..NoteTokenPosition(tokens, i) :
                                     tokens[k] = BAR})
                        = ns[i].start_time \div B
                  /\ \A k, r \in PositionsBeforeNote(tokens, i) :
                        (tokens[k] = BAR /\ tokens[r] # BAR) => k < r

\* notes at beats 0, 4 and 8 were encoded with four beats a bar: two BARs,
\* one right before each of the second and third NOTE_ tokens
C9_Witness ==
    /\ result # <<>>
    /\ midi_config.beats_per_bar = 4000
    /\ Len(result[1].notes) = 3
    /\ result[1].notes[1].start_time = 0
    /\ result[1].notes[2].start_time = 4000
    /\ result[1].notes[3].start_time = 8000
    /\ Cardinality({k \in 1..Len(result[1].tokens) :
                       result[1].tokens[k] = BAR}) = 2
    /\ \A i \in 2..3 :
          result[1].tokens[NoteTokenPosition(result[1].tokens, i) - 1] = BAR

\* C10: rest emission on encode.  Between the NOTE_ tokens of two
\* consecutive quantized notes there is exactly one REST_ token when the
\* second starts more than 0.1 beat after the first ends and none otherwise;
\* and no note, the first included, gets more than one REST_ token, whatever
\* the size of the gap.
C10_RestEmission ==
    result # <<>> =>
        LET tokens == result[1].tokens
            ns == result[1].notes
            rests(i) == Cardinality({k \in PositionsBeforeNote(tokens, i) :
                                        IsRestToken(tokens[k])})
        IN  /\ \A i \in 1..Len(ns) : rests(i) <= 1
            /\ \A i \in 2..Len(ns) :
                  rests(i) = (IF ns[i].start_time
                                   > ns[i - 1].end_time + Tolerance
                              THEN 1 ELSE 0)

\* a quarter at beat 0 and a quarter at beat 2 were encoded, with one REST_
\* token between the two NOTE_ tokens; a third note five beats later got one
\* REST_ token too
C10_Witness ==
    /\ result # <<>>
    /\ Len(result[1].notes) = 3
    /\ result[1].notes[1].start_time = 0
    /\ result[1].notes[1].end_time = 1000
    /\ result[1].notes[2].start_time = 2000
    /\ result[1].notes[3].start_time = result[1].notes[2].end_time + 5000
    /\ \A i \in 2..3 :
          Cardinality({k \in PositionsBeforeNote(result[1].tokens, i) :
                          IsRestToken(result[1].tokens[k])}) = 1

----------------------------------------------------------------------------
(* Properties of the quantizer, stated for QuantSpec                       *)

\* C5: quantization is idempotent.  For every note list and every grid
\* g > 0, quantize_notes(quantize_notes(notes, g), g) equals
\* quantize_notes(notes, g) note for note, in all seven fields.
C5_QuantizationIdempotent ==
    (qin_grid # 0 /\ qin_grid = qgrid) => qout = qin

\* raw notes off the grid were quantized, and the output quantized again
\* with the same grid
C5_Witness ==
    /\ qin_grid = DefaultQuantizationGrid
    /\ qgrid = qin_grid
    /\ Len(qin) = MaxRawNotes
    /\ qout = qin
    /\ qin[1].start_time # qin[2].start_time
    /\ qin[1].duration_name # qin[2].duration_name

----------------------------------------------------------------------------
(* Properties of the pattern detector, stated for PatternSpec              *)

\* C6: overlap resolution leaves disjoint patterns.  For every input list,
\* no two patterns in the output of _resolve_overlaps, and so of
\* detect_patterns, share a note index: the inclusive ranges
\* [start_index, end_index] of two distinct output patterns are disjoint.
C6_ResolvedPatternsDisjoint ==
    patterns # <<>> =>
        \A i, j \in 1..Len(patterns[1]) :
            i # j => PatternIndices(patterns[1][i])
                        \cap PatternIndices(patterns[1][j]) = {}

\* three patterns, two of them overlapping, were resolved to two
C6_Witness ==
    /\ patterns # <<>>
    /\ det_notes = <<>>
    /\ Len(candidates) = 3
    /\ Len(patterns[1]) = 2
    /\ \E i, j \in 1..3 :
          /\ i # j
          /\ PatternIndices(candidates[i]) \cap PatternIndices(candidates[j])
                # {}

InUnitInterval(confidence) ==
    /\ confidence.den > 0
    /\ 0 <= confidence.num
    /\ confidence.num <= confidence.den

\* C7: pattern confidence bounds.  Every pattern that one of the four
\* detectors (scale, arpeggio, sequence, leap) produces, for every note list
\* and every configuration of the pattern lengths and of
\* sequence_min_repetitions, has 0 <= confidence <= 1; and so has every
\* pattern detect_patterns returns.
C7_ConfidenceBounds ==
    (patterns # <<>> /\ det_notes # <<>>) =>
        /\ \A p \in Range(detect_scales(det_notes, det_config))
                      \cup Range(detect_arpeggios(det_notes, det_config))
                      \cup Range(detect_sequences(det_notes, det_config))
                      \cup Range(detect_intervals(det_notes)) :
              InUnitInterval(p.confidence)
        /\ \A p \in Range(candidates) \cup Range(patterns[1]) :
              InUnitInterval(p.confidence)

\* detect_patterns returned a five-note scale whose confidence is exactly 1
C7_Witness ==
    /\ patterns # <<>>
    /\ \E p \in Range(patterns[1]) :
          /\ p.pattern_type = <<"s","c","a","l","e","_","u","p">>
          /\ p.end_index - p.start_index = 4
          /\ p.confidence.num = p.confidence.den


----------------------------------------------------------------------------
(* Properties of the vocabulary's families, stated for VocabSpec           *)

\* C12: note-token grammar.  Every entry of the vocabulary built from the
\* default configuration that starts with NOTE_ consists of exactly four
\* underscore-delimited fields, NOTE, pitch, duration and dynamic, and so
\* the decoder's four-field note parser parses it.
C12_NoteTokenGrammar ==
    config = DefaultConfig =>
        \A k \in 1..Len(vocab) :
            StartsWith(vocab[k], <<"N","O","T","E","_">>) =>
                /\ Len(Split(vocab[k], "_")) = 4
                /\ Split(vocab[k], "_")[1] = <<"N","O","T","E">>
                /\ parse_note_token(vocab[k], 0) # <<>>

\* the family of a vocabulary entry, numbered in construction order:
\* 0 special, 1 structural, 2 note, 3 rest, 4 pattern, 5 control; 6 for an
\* entry of no family
FamilyRank(token) ==
    IF token \in {<<"[","P","A","D","]">>, <<"[","B","O","S","]">>, <<"[","E","O","S","]">>, <<"[","M","A","S","K","]">>, <<"[","U","N","K","]">>,
                  <<"[","S","E","P","]">>} THEN 0
    ELSE IF token \in {<<"B","A","R">>, <<"P","H","R","A","S","E","_","S","T","A","R","T">>, <<"P","H","R","A","S","E","_","E","N","D">>,
                       <<"S","E","C","T","I","O","N","_","A">>, <<"S","E","C","T","I","O","N","_","B">>, <<"V","E","R","S","E">>, <<"C","H","O","R","U","S">>,
                       <<"B","R","I","D","G","E">>} THEN 1
    ELSE IF StartsWith(token, <<"N","O","T","E","_">>) THEN 2
    ELSE IF StartsWith(token, <<"R","E","S","T","_">>) THEN 3
    ELSE IF StartsWith(token, <<"P","A","T","T","E","R","N","_">>) THEN 4
    ELSE IF \/ StartsWith(token, <<"T","E","M","P","O","_">>) \/ StartsWith(token, <<"K","E","Y","_">>)
            \/ StartsWith(token, <<"T","I","M","E","_">>) \/ StartsWith(token, <<"S","T","Y","L","E","_">>)
            \/ token \in {<<"A","C","C","E","N","T">>, <<"T","E","N","U","T","O">>, <<"S","L","U","R","_","S","T","A","R","T">>,
                          <<"S","L","U","R","_","E","N","D">>} THEN 5
    ELSE 6

\* C13: stable id layout.  For every configuration vocab lists its families
\* contiguously in the order special, structural, note, rest, pattern,
\* control; ids 0..5 are [PAD], [BOS], [EOS], [MASK], [UNK], [SEP] and ids
\* 6..13 are BAR, PHRASE_START, PHRASE_END, SECTION_A, SECTION_B, VERSE,
\* CHORUS, BRIDGE; the id of every token lies in the block of the token's
\* family, so every NOTE_ id is below every REST_ id, every REST_ id below
\* every PATTERN_ id and every PATTERN_ id below every control-token id; and
\* building from the same configuration again gives the same ids.
C13_StableIdLayout ==
    /\ \A k \in 1..Len(vocab) : FamilyRank(vocab[k]) <= 5
    /\ \A k \in 1..(Len(vocab) - 1) :
          FamilyRank(vocab[k]) <= FamilyRank(vocab[k + 1])
    /\ \A k \in 1..Len(vocab) :
          FamilyRank(vocab[token_to_id[vocab[k]] + 1]) = FamilyRank(vocab[k])
    /\ \A i \in 0..5 :
          /\ token_to_id[<<<<"[","P","A","D","]">>, <<"[","B","O","S","]">>, <<"[","E","O","S","]">>, <<"[","M","A","S","K","]">>,
                           <<"[","U","N","K","]">>, <<"[","S","E","P","]">>>>[i + 1]] = i
          /\ id_to_token[i] = <<<<"[","P","A","D","]">>, <<"[","B","O","S","]">>, <<"[","E","O","S","]">>, <<"[","M","A","S","K","]">>,
                                <<"[","U","N","K","]">>, <<"[","S","E","P","]">>>>[i + 1]
    /\ \A i \in 6..13 :
          /\ token_to_id[<<<<"B","A","R">>, <<"P","H","R","A","S","E","_","S","T","A","R","T">>, <<"P","H","R","A","S","E","_","E","N","D">>,
                           <<"S","E","C","T","I","O","N","_","A">>, <<"S","E","C","T","I","O","N","_","B">>, <<"V","E","R","S","E">>,
                           <<"C","H","O","R","U","S">>, <<"B","R","I","D","G","E">>>>[i - 5]] = i
          /\ id_to_token[i] = <<<<"B","A","R">>, <<"P","H","R","A","S","E","_","S","T","A","R","T">>, <<"P","H","R","A","S","E","_","E","N","D">>,
                                <<"S","E","C","T","I","O","N","_","A">>, <<"S","E","C","T","I","O","N","_","B">>, <<"V","E","R","S","E">>,
                                <<"C","H","O","R","U","S">>, <<"B","R","I","D","G","E">>>>[i - 5]
    /\ BuildTokenToId(BuildVocabulary(config)) = token_to_id

\* a vocabulary with entries of all six families, its note family cut off
\* at max_vocab_size - 200
C13_Witness ==
    /\ config = DefaultConfig
    /\ \A r \in 0..5 : \E k \in 1..Len(vocab) : FamilyRank(vocab[k]) = r
    /\ Len(AddNoteTokens(config)) = config.max_vocab_size - NoteReserve
    /\ token_to_id[<<"R","E","S","T","_","s","i","x","t","e","e","n","t","h">>] = 1814

\* the entries of the control family, in vocabulary order
ControlFamily(v) == SelectSeq(v, LAMBDA token : FamilyRank(token) = 5)

\* the last n entries of a list
LastEntries(v, n) == SubSeq(v, Len(v) - n + 1, Len(v))

\* C18, as stated: the control-token family is a fixed catalog of exactly
\* 24 tokens, the last 24 entries of every vocabulary, whatever the
\* configuration.
C18_ControlCatalogOf24 ==
    /\ Len(ControlFamily(vocab)) = 24
    /\ ControlFamily(vocab) = LastEntries(vocab, 24)
    /\ ControlFamily(vocab) = ControlFamily(TokenizerVocabulary.vocab)

\* C18, amended: the control-token family is a fixed catalog of exactly 23
\* tokens (4 tempo, 8 key, 4 time-signature, 3 style and 4 articulation
\* labels), the last 23 entries of every vocabulary, whatever the
\* configuration.
C18_ControlCatalogOf23 ==
    /\ Len(ControlFamily(vocab)) = 23
    /\ ControlFamily(vocab) = LastEntries(vocab, 23)
    /\ ControlFamily(vocab) = ControlFamily(TokenizerVocabulary.vocab)
    /\ Len(SelectSeq(vocab, LAMBDA token : StartsWith(token, <<"T","E","M","P","O","_">>))) = 4
    /\ Len(SelectSeq(vocab, LAMBDA token : StartsWith(token, <<"K","E","Y","_">>))) = 8
    /\ Len(SelectSeq(vocab, LAMBDA token : StartsWith(token, <<"T","I","M","E","_">>))) = 4
    /\ Len(SelectSeq(vocab, LAMBDA token : StartsWith(token, <<"S","T","Y","L","E","_">>))) = 3

\* a vocabulary of a configuration other than the default, its note family
\* cut off, that ends with the 23 control tokens
C18_Witness ==
    /\ config # DefaultConfig
    /\ config.max_vocab_size = NoteReserve + 5
    /\ Len(AddNoteTokens(config)) = 5
    /\ Len(vocab) > 23
    /\ LastEntries(vocab, 23) = ControlFamily(TokenizerVocabulary.vocab)

----------------------------------------------------------------------------
(* Properties of decoding, stated for DecodeSpec                           *)

\* the pitch names the decoder's tables know: a chromatic note name, its
\* sharp written # or s, and one decimal digit for the octave
RecognisedPitchNames ==
    {name \o <<d>> :
        name \in {<<"C">>, <<"C","#">>, <<"D">>, <<"D","#">>, <<"E">>, <<"F">>, <<"F","#">>, <<"G">>,
                  <<"G","#">>, <<"A">>, <<"A","#">>, <<"B">>,
                  <<"C","s">>, <<"D","s">>, <<"F","s">>, <<"G","s">>, <<"A","s">>},
        d \in Range(Digits)}

\* a token that starts with NOTE_ and is not four fields, or whose pitch
\* field is not a recognised pitch name
MalformedNoteToken(token) ==
    /\ StartsWith(token, <<"N","O","T","E","_">>)
    /\ \/ Len(Split(token, "_")) # 4
       \/ Split(token, "_")[2] \notin RecognisedPitchNames

WithoutMalformed(tokens) ==
    SelectSeq(tokens, LAMBDA token : ~MalformedNoteToken(token))

\* the tokens the for loop has been through
TokensProcessed == SubSeq(dtokens, 1, Min2(dpos - 1, Len(dtokens)))

DecodeFinished == dpos = Len(dtokens) + 2

\* C11: malformed note tokens are skipped without aborting.  For a token
\* that starts with NOTE_ and has not exactly four fields, or whose pitch
\* field is no recognised pitch name, the loop turn leaves notes and
\* current_time as they are and goes on to the next token; at every point
\* of the loop its locals are what they would be had the malformed tokens
\* not been in the list, and so is the list decode_tokens returns.
C11_MalformedNoteTokensSkipped ==
    /\ [](/\ dpos >= 1 =>
                dstate[1] = TokensToNotesLoop(WithoutMalformed(TokensProcessed),
                                1, [notes |-> <<>>, current_time |-> 0,
                                    current_bar |-> 0],
                                midi_config.beats_per_bar)
          /\ DecodeFinished =>
                decoded[1].notes
                    = tokens_to_notes(WithoutMalformed(dtokens), midi_config))
    /\ [][(dpos \in 1..Len(dtokens) /\ MalformedNoteToken(dtokens[dpos]))
              => (dstate' = dstate /\ dpos' = dpos + 1)]_vars

\* a list was decoded in which a malformed note token comes after a rest
\* and before a note that parses
C11_Witness ==
    /\ DecodeFinished
    /\ \E i, j, k \in 1..Len(dtokens) :
          /\ i < j /\ j < k
          /\ StartsWith(dtokens[i], <<"R","E","S","T","_">>)
          /\ MalformedNoteToken(dtokens[j])
          /\ parse_note_token(dtokens[k], 0) # <<>>
    /\ Len(decoded[1].notes) = 1

\* a NOTE_ token of four fields whose dynamic field is none of pp, p, mp,
\* mf, f, ff
UnknownDynamicToken(token) ==
    /\ StartsWith(token, <<"N","O","T","E","_">>)
    /\ Len(Split(token, "_")) = 4
    /\ Split(token, "_")[4] \notin {<<"p","p">>, <<"p">>, <<"m","p">>, <<"m","f">>, <<"f">>, <<"f","f">>}

\* C15: a NOTE_ token of four fields whose dynamic name is not one of pp,
\* p, mp, mf, f, ff is treated as malformed: the loop produces no note for
\* it and leaves current_time as it is, so that at every point of the loop
\* its locals are what they would be had these tokens not been in the list.
C15_UnknownDynamicSkipped ==
    dpos >= 1 =>
        dstate[1] = TokensToNotesLoop(
                        SelectSeq(TokensProcessed,
                                  LAMBDA token : ~UnknownDynamicToken(token)),
                        1, [notes |-> <<>>, current_time |-> 0,
                            current_bar |-> 0],
                        midi_config.beats_per_bar)

----------------------------------------------------------------------------
(* Properties of the pitch names, stated for UtilSpec                      *)

\* C16: pitch-name conversion is reversible.  For every MIDI pitch p in
\* 0..127, _pitch_name_to_midi(_midi_to_pitch_name(p)) returns p, and so
\* the note token built from the name of p parses to a note of pitch p.
C16_PitchNameRoundTrip ==
    (Len(ucall) = 2 /\ ucall[1].op = "midi_to_pitch_name") =>
        /\ ucall[2].res = <<ucall[1].arg>>
        /\ parse_note_token(
               FormatNoteToken(ucall[1].res, <<"q","u","a","r","t","e","r">>, <<"m","f">>), 0) # <<>>
        /\ parse_note_token(
               FormatNoteToken(ucall[1].res, <<"q","u","a","r","t","e","r">>, <<"m","f">>), 0)[1].pitch
                  = ucall[1].arg

----------------------------------------------------------------------------
(* Properties of the bar tokens in decoding, stated for DecodeSpec         *)

\* how many of the first n tokens are BAR
BarsAmong(n) ==
    Len(SelectSeq(SubSeq(dtokens, 1, n), LAMBDA token : token = <<"B","A","R">>))

\* the loop has just been through token number n
JustProcessed(n) == n >= 1 /\ dpos = n + 1 /\ n <= Len(dtokens)

\* C19: decode resynchronises on bar tokens.  Immediately after the loop
\* has been through a BAR token, current_time is the number of BAR tokens
\* processed so far times beats_per_bar, whatever notes and rests came
\* before; and a NOTE_ token that directly follows a BAR gives a note that
\* starts exactly on that bar boundary.
C19_BarResynchronises ==
    \A n \in 1..Len(dtokens) :
        JustProcessed(n) =>
            /\ dtokens[n] = <<"B","A","R">>
                  => /\ dstate[1].current_time
                           = BarsAmong(n) * midi_config.beats_per_bar
                     /\ dstate[1].current_bar = BarsAmong(n)
            /\ (/\ n >= 2
                 /\ dtokens[n - 1] = <<"B","A","R">>
                 /\ parse_note_token(dtokens[n], 0) # <<>>)
                  => /\ dstate[1].notes # <<>>
                     /\ dstate[1].notes[Len(dstate[1].notes)].start_time
                           = BarsAmong(n) * midi_config.beats_per_bar

\* a note that parses, then a BAR, then a second note: the first note ended
\* before the bar line and the second starts on it
C19_Witness ==
    /\ JustProcessed(3)
    /\ parse_note_token(dtokens[1], 0) # <<>>
    /\ dtokens[2] = <<"B","A","R">>
    /\ Len(dstate[1].notes) = 2
    /\ dstate[1].notes[1].end_time < midi_config.beats_per_bar
    /\ dstate[1].notes[2].start_time = midi_config.beats_per_bar

----------------------------------------------------------------------------
(* Properties of the pattern tokens and of the detector's threshold,       *)
(* stated for PatternSpec                                                  *)

\* C14: pattern tokens are vocabulary members.  For every pattern that
\* detect_patterns returns, the token PATTERN_{TYPE uppercased} that
\* get_pattern_tokens produces for it is a member of the vocabulary built
\* from the default configuration, and encoding it does not give the id of
\* [UNK].
C14_PatternTokensInVocabulary ==
    pattern_tokens # <<>> =>
        \A k \in 1..Len(pattern_tokens[1]) :
            /\ pattern_tokens[1][k] \in Range(TokenizerVocabulary.vocab)
            /\ encode_token(TokenizerVocabulary, pattern_tokens[1][k])
                   # encode_token(TokenizerVocabulary, UNK)

\* the thresholds a second detector is given
ThresholdProbes == {Frac(3, 5), Frac(4, 5)}

\* what detect_patterns returns for the melody with the threshold set to t
\* and all other options as they are
PatternsAtThreshold(t) ==
    detect_patterns(det_notes, [det_config EXCEPT !.confidence_threshold = t])

IsPrefix(s, t) == Len(s) <= Len(t) /\ s = SubSeq(t, 1, Len(s))

\* C17: raising the confidence threshold never adds patterns.  When
\* detect_patterns has returned, for the melody and any two thresholds t1 <= t2, one of them the detector's own
\* and all other options equal, the list detect_patterns returns with t2
\* is a prefix, in order, of the list it returns with t1, and so a subset of
\* it with no more patterns.
C17_ThresholdMonotone ==
    (patterns # <<>> /\ det_notes # <<>> /\ pattern_tokens = <<>>) =>
        \A t \in ThresholdProbes :
            /\ FracGeq(t, det_config.confidence_threshold)
                  => /\ IsPrefix(PatternsAtThreshold(t), patterns[1])
                     /\ Range(PatternsAtThreshold(t)) \subseteq Range(patterns[1])
            /\ FracGeq(det_config.confidence_threshold, t)
                  => /\ IsPrefix(patterns[1], PatternsAtThreshold(t))
                     /\ Range(patterns[1]) \subseteq Range(PatternsAtThreshold(t))

\* a melody for which a higher threshold keeps some of the returned
\* patterns and drops others
C17_Witness ==
    /\ patterns # <<>>
    /\ det_notes # <<>>
    /\ \E t \in ThresholdProbes :
          /\ FracGeq(t, det_config.confidence_threshold)
          /\ PatternsAtThreshold(t) # <<>>
          /\ Len(PatternsAtThreshold(t)) < Len(patterns[1])

\* two patterns share a note index
Overlap(p, q) == \E i \in p.start_index..p.end_index :
                    q.start_index <= i /\ i <= q.end_index

SameConfidence(p, q) ==
    FracGeq(p.confidence, q.confidence) /\ FracGeq(q.confidence, p.confidence)

\* the first candidate of maximal confidence, for a non-empty candidate list
FirstOfMaximalConfidence ==
    candidates[CHOOSE i \in 1..Len(candidates) :
        /\ \A j \in 1..Len(candidates) :
              FracGeq(candidates[i].confidence, candidates[j].confidence)
        /\ \A j \in 1..(i - 1) :
              ~FracGeq(candidates[j].confidence, candidates[i].confidence)]

\* C20: greedy overlap resolution keeps the higher-confidence pattern.
\* The output of detect_patterns holds only candidates of at least
\* confidence_threshold; the output of the resolution always holds the
\* first candidate of maximal confidence; every surviving candidate that is
\* not in the output overlaps an output pattern of at least its own
\* confidence, and where that pattern has just the same confidence it comes
\* earlier in the candidate order.
C20_GreedyOverlapResolution ==
    patterns # <<>> =>
        /\ Range(patterns[1]) \subseteq Range(candidates)
        /\ det_notes # <<>> =>
              \A p \in Range(patterns[1]) :
                 FracGeq(p.confidence, det_config.confidence_threshold)
        /\ candidates # <<>> =>
              /\ patterns[1] # <<>>
              /\ patterns[1][1] = FirstOfMaximalConfidence
        /\ \A i \in 1..Len(candidates) :
              candidates[i] \notin Range(patterns[1]) =>
                 \E q \in Range(patterns[1]) :
                    /\ Overlap(q, candidates[i])
                    /\ FracGeq(q.confidence, candidates[i].confidence)
                    /\ SameConfidence(q, candidates[i])
                          => \E j \in 1..(i - 1) : candidates[j] = q

\* detect_patterns dropped a candidate of a melody for one of higher
\* confidence that the detectors had found after it
C20_Witness ==
    /\ patterns # <<>>
    /\ det_notes # <<>>
    /\ Len(candidates) >= 2
    /\ candidates[1] \notin Range(patterns[1])
    /\ patterns[1][1] # candidates[1]
    /\ ~FracGeq(candidates[1].confidence, patterns[1][1].confidence)

----------------------------------------------------------------------------
(* Properties of the timing of encoding and decoding, stated for Spec      *)

\* C21: decoded notes are monophonic and time-ordered.  For the token
\* sequence encode_notes produces from a sorted, non-overlapping note list,
\* the notes decode_tokens returns have non-decreasing start_time, and each
\* of them starts at or after the end_time of the note decoded before it.
C21_DecodedNotesTimeOrdered ==
    (decoded # <<>> /\ decoded[1].from = "tokens") =>
        \A i \in 2..Len(decoded[1].notes) :
            /\ decoded[1].notes[i - 1].start_time
                  <= decoded[1].notes[i].start_time
            /\ decoded[1].notes[i - 1].end_time
                  <= decoded[1].notes[i].start_time

\* the beat lengths of the fixed duration table
NamedDurations == {250, 375, 500, 750, 1000, 1500, 2000, 3000, 4000}

\* sorted, non-overlapping and grid-aligned, every note as long as a named
\* duration and every gap, the one before the first note included, nothing
\* or as long as a named duration
NamedTiming(ns) ==
    \A i \in 1..Len(ns) :
        LET before == IF i = 1 THEN 0 ELSE ns[i - 1].end_time
        IN  /\ ns[i].start_time % BeatSubdivision(midi_config.quantization_grid) = 0
            /\ ns[i].end_time % BeatSubdivision(midi_config.quantization_grid) = 0
            /\ ns[i].end_time - ns[i].start_time \in NamedDurations
            /\ ns[i].start_time - before \in NamedDurations \cup {0}

\* C22: timing is reconstructed on round trip.  For a sorted,
\* non-overlapping, grid-aligned note list whose note durations and gaps are
\* all named durations of the duration table, decode_tokens(
\* encode_notes(notes).tokens) has as many notes as the input and its i-th
\* note has the start_time and end_time of the i-th quantized input note,
\* also where BAR and REST tokens are both emitted before a note.
C22_TimingRoundTrip ==
    (/\ decoded # <<>>
     /\ decoded[1].from = "tokens"
     /\ NamedTiming(notes))
    => /\ Len(decoded[1].notes) = Len(result[1].notes)
       /\ \A i \in 1..Len(result[1].notes) :
             /\ decoded[1].notes[i].start_time = result[1].notes[i].start_time
             /\ decoded[1].notes[i].end_time = result[1].notes[i].end_time

\* the name in the duration table of the entry nearest to a gap, where that
\* entry is within the tolerance of 0.1 beat; no name otherwise
NearestNamedDuration(gap) ==
    {DurationMap[k].name : k \in {c \in 1..Len(DurationMap) :
        /\ Abs(DurationMap[c].beats - gap) < Tolerance
        /\ \A j \in 1..Len(DurationMap) :
              Abs(DurationMap[c].beats - gap) <= Abs(DurationMap[j].beats - gap)}}

\* the REST_ token before note i of an encoding agrees with `fallback`: it
\* names the nearest duration of the table, or `fallback` where the gap
\* matches none
RestNamedOr(fallback) ==
    LET tokens == result[1].tokens
        ns == result[1].notes
    IN  \A i \in 1..Len(ns) :
          \A k \in PositionsBeforeNote(tokens, i) :
             IsRestToken(tokens[k]) =>
                LET gap == ns[i].start_time
                             - (IF i = 1 THEN 0 ELSE ns[i - 1].end_time)
                IN  IF NearestNamedDuration(gap) # {}
                    THEN \E name \in NearestNamedDuration(gap) :
                            tokens[k] = <<"R","E","S","T","_">> \o name
                    ELSE tokens[k] = <<"R","E","S","T","_">> \o fallback

\* C24, as stated: the rest token emitted for a gap names the nearest named
\* duration, and when the gap matches no named duration within 0.1 beat the
\* encoder emits REST_sixteenth.
C24_RestFallbackSixteenth == result # <<>> => RestNamedOr(<<"s","i","x","t","e","e","n","t","h">>)

\* C24, amended: the rest token emitted for a gap names the nearest named
\* duration, and when the gap matches no named duration within 0.1 beat the
\* encoder emits REST_quarter.
C24_RestFallbackQuarter == result # <<>> => RestNamedOr(<<"q","u","a","r","t","e","r">>)

\* an encoding with a gap of five beats, which no entry of the table
\* matches, and with a gap of one beat
C24_Witness ==
    /\ result # <<>>
    /\ Len(result[1].notes) = 3
    /\ result[1].notes[2].start_time - result[1].notes[1].end_time = 5000
    /\ result[1].notes[3].start_time - result[1].notes[2].end_time = 1000
    /\ \E k \in PositionsBeforeNote(result[1].tokens, 2) :
          result[1].tokens[k] = <<"R","E","S","T","_","q","u","a","r","t","e","r">>

----------------------------------------------------------------------------
(* Properties of the detectors, stated for PatternSpec                     *)

\* the interval profile of the k-note block of the melody that starts at
\* note index s (from 0)
BlockProfile(s, k) == Intervals(SubSeq(det_notes, s + 1, s + k))

\* block number j (from 0) after start s lies within the melody and has the
\* profile of the block at s
BlockRepeats(s, k, j) ==
    /\ s + (j + 1) * k <= Len(det_notes)
    /\ BlockProfile(s + j * k, k) = BlockProfile(s, k)

\* how many consecutive k-note blocks from s on have the profile of the
\* first, the first included
RepeatedBlocks(s, k) ==
    CHOOSE r \in 1..Len(det_notes) :
        /\ \A j \in 0..(r - 1) : BlockRepeats(s, k, j)
        /\ ~BlockRepeats(s, k, r)

\* C23: sequence detection scans each starting index.  With
\* sequence_min_repetitions at 2, for every pattern size k in 2..4 and every
\* start index s with s + 2k <= len(notes), the last one s = len(notes) - 2k
\* included, if the k-note blocks at s and s + k have equal interval
\* profiles then _detect_sequences emits a sequence pattern with start_index
\* s, end_index s + r*k - 1 for the r consecutive repeated blocks, and
\* confidence min(0.9, 0.5 + (r - 2) * 0.15).
C23_SequenceScansEachStart ==
    (/\ patterns # <<>>
     /\ det_notes # <<>>
     /\ det_config.sequence_min_repetitions = 2) =>
        \A k \in 2..4 :
            \A s \in 0..(Len(det_notes) - 2 * k) :
                BlockRepeats(s, k, 1) =>
                    \E p \in Range(detect_sequences(det_notes, det_config)) :
                        /\ p.pattern_type = <<"s","e","q","u","e","n","c","e">>
                        /\ p.start_index = s
                        /\ p.end_index = s + RepeatedBlocks(s, k) * k - 1
                        /\ p.confidence.num * 100 = p.confidence.den *
                              Min2(90, 50 + (RepeatedBlocks(s, k) - 2) * 15)

\* C29: scale direction labels match the net motion of the window.  Every
\* scale_up pattern, of _detect_scales and of detect_patterns, covers notes
\* whose last pitch is strictly higher than the first, and every scale_down
\* pattern covers notes whose last pitch is strictly lower than the first;
\* a window with zero net motion is reported as neither.
C29_ScaleDirectionIsNetMotion ==
    (patterns # <<>> /\ det_notes # <<>>) =>
        \A p \in Range(patterns[1])
                   \cup Range(detect_scales(det_notes, det_config)) :
            LET first == det_notes[p.start_index + 1]
                last == det_notes[p.end_index + 1]
            IN  /\ p.pattern_type = <<"s","c","a","l","e","_","u","p">> => last > first
                /\ p.pattern_type = <<"s","c","a","l","e","_","d","o","w","n">> => last < first

\* C30: reported pattern spans respect the configured length bounds.  Every
\* pattern detect_patterns returns, scale, arpeggio, sequence or leap,
\* covers end_index - start_index + 1 notes, a number between
\* min_pattern_length and max_pattern_length inclusive.
C30_SpansWithinLengthBounds ==
    (patterns # <<>> /\ det_notes # <<>>) =>
        \A p \in Range(patterns[1]) :
            /\ det_config.min_pattern_length <= p.end_index - p.start_index + 1
            /\ p.end_index - p.start_index + 1 <= det_config.max_pattern_length

----------------------------------------------------------------------------
(* Further properties of the MIDI utilities, stated for QuantSpec          *)

\* C25: quantization postcondition.  For every input note (one with
\* end_time <= start_time included) and every grid g > 0, the note returned
\* by quantize_notes starts on an integer multiple of the grid unit 4/g,
\* lasts an integer multiple of 4/g and at least one grid unit, and ends at
\* start_time + duration, so end_time > start_time for every quantized note.
C25_QuantizationPostcondition ==
    qgrid # 0 =>
        \A k \in 1..Len(qout) :
            LET unit == BeatSubdivision(qgrid)
                duration == qout[k].end_time - qout[k].start_time
            IN  /\ qout[k].start_time % unit = 0
                /\ duration % unit = 0
                /\ duration >= unit
                /\ qout[k].end_time > qout[k].start_time

\* a note that ends before it starts and a note of no length were quantized
\* from positions off the grid
C25_Witness ==
    /\ qgrid = DefaultQuantizationGrid
    /\ qin_grid = 0
    /\ Len(qin) = MaxRawNotes
    /\ qin[1].end_time < qin[1].start_time
    /\ qin[2].end_time = qin[2].start_time
    /\ qin[1].start_time % BeatSubdivision(qgrid) # 0
    /\ qout[1].end_time = qout[1].start_time + BeatSubdivision(qgrid)

----------------------------------------------------------------------------
(* Properties of the dynamic markings, stated for UtilSpec                 *)

\* C28: dynamic names and velocities are mutually consistent on decode.  For
\* every dynamic name d in {pp, p, mp, mf, f, ff},
\* _velocity_to_dynamic(_dynamic_to_velocity(d)) = d, so the note parsed
\* from a note token of dynamic d carries a velocity whose dynamic marking
\* is d, and the token built from the names re-derived from its numbers is
\* the token it was parsed from.
C28_DynamicVelocityConsistent ==
    (Len(ucall) = 2 /\ ucall[1].op = "dynamic_to_velocity") =>
        LET token == FormatNoteToken(<<"C","4">>, <<"q","u","a","r","t","e","r">>, ucall[1].arg)
            note == parse_note_token(token, 0)[1]
        IN  /\ ucall[2].res = ucall[1].arg
            /\ velocity_to_dynamic(note.velocity) = note.dynamic_name
            /\ FormatNoteToken(midi_to_pitch_name(note.pitch),
                    beats_to_duration_name(note.end_time - note.start_time),
                    velocity_to_dynamic(note.velocity)) = token

----------------------------------------------------------------------------
(* Properties of the vocabulary size, stated for VocabSpec                 *)

\* C27: the vocabulary never exceeds its configured budget.  For every
\* configuration, after construction size <= max_vocab_size: the reserve of
\* 200 ids left by the truncation of the note tokens always suffices for
\* the special, structural, rest, pattern and control families, also when
\* max_vocab_size is below 200.
C27_VocabularyWithinBudget ==
    Len(vocab) <= config.max_vocab_size

----------------------------------------------------------------------------
(* Termination of encoding, stated for EncodeSpec                          *)

\* C26: encoding terminates.  For every finite note list and every value
\* of beats_per_bar, zero and negative values included, the bar-marker loop
\* of _notes_to_tokens stops after finitely many BAR tokens and
\* encode_notes reaches the final [EOS] and returns.
C26_EncodingTerminates == <>(result # <<>>)
====
